---- MODULE Spec2Model ----
(***************************************************************************)
(* Two-deck mixer of audio_engine/src/main.rs.                             *)
(*                                                                         *)
(* The mixer thread is a process whose position is pc:                     *)
(*   "cmd"  the command drain loop (one action per command handled),       *)
(*   "mix"  the 960-slot chunk synthesis loop (one action per slot),       *)
(*   "post" the code after the chunk (approaching_end, auto-gapless).      *)
(* The decoder threads and the passage of time are separate actions.       *)
(*                                                                         *)
(* Samples are i16 values v standing for the float v / 32768.  Sample      *)
(* counts are scaled down (see the constants): the relative order of the   *)
(* thresholds of the source is kept.                                       *)
(***************************************************************************)
EXTENDS Integers, Sequences, FiniteSets, TLC

\* ------------------------------------------------------------------------
\* Program constants (sample counts scaled down, seconds kept)
\* ------------------------------------------------------------------------
\* main.rs:61, scaled from 48000 so that 1 ms of crossfade is 1 frame
SAMPLE_RATE == 1000
\* main.rs:62
CHANNELS == 2
\* main.rs:63, scaled from 960
CHUNK_SIZE == 2
\* main.rs:238, SAMPLE_RATE * CHANNELS / 2 (0.5 s), scaled
READY_THRESHOLD == 2
\* main.rs:892, SAMPLE_RATE * CHANNELS * 3 (3 s), scaled
PROACTIVE_THRESHOLD == 3
\* main.rs:1080, SAMPLE_RATE * CHANNELS * 3 (3 s), scaled
APPROACHING_END_THRESHOLD == 3
\* main.rs:914, SAMPLE_RATE * CHANNELS * 25 (25 s), scaled
MIN_SAMPLES_PLAYED_FOR_END == 4
\* 6 s counted per channel
ProactiveTotalAt_PerChannel(sample_rate, channels) == sample_rate * 6

\* main.rs:902 and 700, `SAMPLE_RATE * CHANNELS * 6` (6 s of interleaved
\* samples) as a function of the two constants
ProactiveTotalAt(sample_rate, channels) == sample_rate * channels * 6

\* crossfade_total of a proactive or approved crossfade, scaled: one sample
\* of the model for 3000 of the formula (4)
PROACTIVE_CROSSFADE_TOTAL == ProactiveTotalAt(SAMPLE_RATE, CHANNELS) \div 3000
\* main.rs:419, decoder batch of 1920 samples (two mixer chunks), scaled
DECODER_CHUNK == 4
\* main.rs:150, bounded(100), scaled
CHANNEL_CAPACITY == 2
\* main.rs:850, buffer monitor period of 5 iterations, scaled
MONITOR_PERIOD == 2
\* main.rs:514
PENDING_TIMEOUT_SECS == 8
\* main.rs:520
AUTO_GAPLESS_STALL_TIMEOUT_SECS == 10
\* main.rs:1199
DOWNLOAD_STUCK_SECS == 30

\* ------------------------------------------------------------------------
\* Bounds of the model
\* ------------------------------------------------------------------------
\* seconds that pass in one Tick
TickSecs == 15
\* commands handled in one behaviour
MaxCmds == 3
\* samples a deck is asked for between two resets of its counters
MaxRead == 6

Decks == {"A", "B"}

Other(d) == IF d = "A" THEN "B" ELSE "A"

\* `if x == "A" { deck_a } else { deck_b }`
AElseB(x) == IF x = "A" THEN "A" ELSE "B"

Min(a, b) == IF a < b THEN a ELSE b

RECURSIVE Flatten(_)
Flatten(q) == IF q = <<>> THEN <<>> ELSE Head(q) \o Flatten(Tail(q))

\* Option<Instant>: None is -1, otherwise the seconds elapsed since the
\* instant, saturated at the only deadline it is compared with.
NoInstant == -1

\* ------------------------------------------------------------------------
\* Deck
\* ------------------------------------------------------------------------
Deck_new ==
  [ samples               |-> <<>>,
    full_samples          |-> <<>>,
    is_loading            |-> FALSE,
    has_ended             |-> FALSE,
    receiver              |-> FALSE,
    buffer_level          |-> 0,
    total_samples_read    |-> 0,
    real_samples_received |-> 0,
    samples_played        |-> 0,
    approaching_end_sent  |-> FALSE,
    cancel_token          |-> FALSE,
    load_started_at       |-> NoInstant ]

\* a load that leaves has_ended as it is
Deck_load_KeepEnded(dk) ==
  [ dk EXCEPT !.samples = <<>>, !.full_samples = <<>>, !.buffer_level = 0,
              !.total_samples_read = 0, !.real_samples_received = 0,
              !.samples_played = 0,
              !.approaching_end_sent = FALSE, !.is_loading = TRUE,
              !.load_started_at = 0, !.receiver = TRUE,
              !.cancel_token = TRUE ]

\* the receiving side of Deck::load: the deck after load() returns
Deck_load(dk) ==
  [ dk EXCEPT !.samples = <<>>, !.full_samples = <<>>, !.buffer_level = 0,
              !.total_samples_read = 0, !.real_samples_received = 0,
              !.samples_played = 0, !.has_ended = FALSE,
              !.approaching_end_sent = FALSE, !.is_loading = TRUE,
              !.load_started_at = 0, !.receiver = TRUE,
              !.cancel_token = TRUE ]

Deck_is_ready_for_crossfade(dk) == Len(dk.samples) >= READY_THRESHOLD

\* a restart that does not reset samples_played
Deck_restart_KeepPlayed(dk) ==
  [ dk EXCEPT !.samples = dk.full_samples, !.total_samples_read = 0,
              !.buffer_level = Len(dk.full_samples) ]

\* a restart that resets the counters and leaves the queue as it is
Deck_restart_KeepQueue(dk) ==
  [ dk EXCEPT !.samples_played = 0, !.total_samples_read = 0 ]

\* Deck::restart (main.rs:243-248)
Deck_restart(dk) ==
  [ dk EXCEPT !.samples = dk.full_samples, !.samples_played = 0,
              !.total_samples_read = 0,
              !.buffer_level = Len(dk.full_samples) ]

\* poll_receiver that queues the chunks without keeping the copy for replay
Deck_poll_receiver_NoCopy(S, d) ==
  LET dk  == S.decks[d]
      ch  == S.chan[d]
      got == Flatten(ch.q)
      dk1 == IF ch.q # <<>>
               THEN [ dk EXCEPT !.real_samples_received = @ + Len(got),
                                !.load_started_at = NoInstant,
                                !.samples = @ \o got,
                                !.buffer_level = Len(dk.samples) + Len(got) ]
               ELSE dk
      dk2 == IF ~ch.open
               THEN [ dk1 EXCEPT !.has_ended = TRUE, !.receiver = FALSE ]
               ELSE dk1
  IN IF ~dk.receiver THEN S
     ELSE [ S EXCEPT !.decks[d] = dk2, !.chan[d].q = <<>> ]

\* S is the state the mixer thread works on:
\*   S.decks, S.chan (the decoder channels), S.mx (the locals of
\*   mixer_loop), S.ev (the events sent by send_log in this step).
Deck_poll_receiver(S, d) ==
  LET dk  == S.decks[d]
      ch  == S.chan[d]
      got == Flatten(ch.q)
      dk1 == IF ch.q # <<>>
               THEN [ dk EXCEPT !.real_samples_received = @ + Len(got),
                                !.load_started_at = NoInstant,
                                !.full_samples = @ \o got,
                                !.samples = @ \o got,
                                !.buffer_level = Len(dk.samples) + Len(got) ]
               ELSE dk
      dk2 == IF ~ch.open
               THEN [ dk1 EXCEPT !.has_ended = TRUE, !.receiver = FALSE ]
               ELSE dk1
  IN IF ~dk.receiver THEN S
     ELSE [ S EXCEPT !.decks[d] = dk2, !.chan[d].q = <<>> ]

\* Option<f32>: some = FALSE is None
NoSample == [ some |-> FALSE, val |-> 0 ]
Sample(v) == [ some |-> TRUE, val |-> v ]

\* get_next_sample that counts the silence it returns for an empty queue as
\* played
Deck_get_next_sample_CountSilence(S, d) ==
  LET Take(S1, dk) ==
        IF dk.samples # <<>>
          THEN [ S |-> [ S1 EXCEPT !.decks[d] =
                           [ dk EXCEPT !.samples = Tail(dk.samples),
                                       !.buffer_level = IF @ > 0 THEN @ - 1 ELSE 0,
                                       !.total_samples_read = @ + 1,
                                       !.samples_played = @ + 1 ] ],
                 r |-> Sample(Head(dk.samples)) ]
        ELSE IF ~dk.has_ended
          THEN IF ~dk.receiver /\ dk.samples_played > 0
                 THEN [ S |-> [ S1 EXCEPT !.decks[d].has_ended = TRUE ],
                        r |-> NoSample ]
                 ELSE [ S |-> [ S1 EXCEPT !.decks[d].total_samples_read = @ + 1,
                                          !.decks[d].samples_played = @ + 1 ],
                        r |-> Sample(0) ]
        ELSE [ S |-> S1, r |-> NoSample ]
      Polled(S1) == Take(S1, S1.decks[d])
  IN Polled(Deck_poll_receiver(S, d))

\* get_next_sample: the state after the call and the value returned
Deck_get_next_sample(S, d) ==
  LET Take(S1, dk) ==
        IF dk.samples # <<>>
          THEN [ S |-> [ S1 EXCEPT !.decks[d] =
                           [ dk EXCEPT !.samples = Tail(dk.samples),
                                       !.buffer_level = IF @ > 0 THEN @ - 1 ELSE 0,
                                       !.total_samples_read = @ + 1,
                                       !.samples_played = @ + 1 ] ],
                 r |-> Sample(Head(dk.samples)) ]
        ELSE IF ~dk.has_ended
          THEN IF ~dk.receiver /\ dk.samples_played > 0
                 THEN [ S |-> [ S1 EXCEPT !.decks[d].has_ended = TRUE ],
                        r |-> NoSample ]
                 ELSE [ S |-> [ S1 EXCEPT !.decks[d].total_samples_read = @ + 1 ],
                        r |-> Sample(0) ]
        ELSE [ S |-> S1, r |-> NoSample ]
      Polled(S1) == Take(S1, S1.decks[d])
  IN Polled(Deck_poll_receiver(S, d))

\* Option::unwrap_or(0.0)
UnwrapOr0(r) == IF r.some THEN r.val ELSE 0

\* ------------------------------------------------------------------------
\* Events (send_log); the info, debug and error lines are not modelled
\* ------------------------------------------------------------------------
\* deck_changed: deck, info = triggered_by.  crossfade_started: deck = to,
\* info = from.  The other kinds: deck = payload; the info of buffer_ready
\* is not part of the payload, it names the place that sent it.
Ev(kind, deck, info) == [ event |-> kind, deck |-> deck, info |-> info ]

send_log(S, kind, deck, info) == [ S EXCEPT !.ev = Append(@, Ev(kind, deck, info)) ]

\* ------------------------------------------------------------------------
\* Locals of mixer_loop
\* ------------------------------------------------------------------------
\* Option<(String, Instant, bool, u64)>
NoPending == [ some |-> FALSE, target |-> "A", age |-> 0, is_cf |-> FALSE, dur |-> 0 ]
SomePending(t, cf, dur) == [ some |-> TRUE, target |-> t, age |-> 0, is_cf |-> cf, dur |-> dur ]

\* Option<(String, Instant)>
NoStall == [ some |-> FALSE, target |-> "A", age |-> 0 ]
SomeStall(t) == [ some |-> TRUE, target |-> t, age |-> 0 ]

\* Option<String>
NoSwitch == "none"

Mixer_init ==
  [ active_deck                   |-> "A",
    crossfading                   |-> FALSE,
    crossfade_total               |-> 0,
    crossfade_left                |-> 0,
    target_deck                   |-> "",
    proactive_crossfade_triggered |-> FALSE,
    proactive_crossfade_enabled   |-> TRUE,
    loop_mode                     |-> FALSE,
    buffer_monitor_counter        |-> 0,
    is_playing                    |-> FALSE,
    buffer_prev_ready             |-> [ d \in Decks |-> FALSE ],
    end_sent                      |-> [ d \in Decks |-> FALSE ],
    approaching_end_sent          |-> [ d \in Decks |-> FALSE ],
    pending_transition            |-> NoPending,
    auto_gapless_stall            |-> NoStall,
    mid_chunk_auto_switch         |-> NoSwitch,
    mid_chunk_loop_restart        |-> FALSE,
    has_audio                     |-> FALSE ]

\* a channel whose receiver was dropped
NoChannel == [ q |-> <<>>, open |-> FALSE ]

\* The decoder threads of a deck: the thread started by the last load of the
\* deck it is attached to (st, src: where it is and what it has left to
\* read; stream: everything the transcoder writes for this load; cancel: its
\* cancellation flag), and the number of threads started
\* for earlier loads that still exist, by the value of their flag.
NoDecoder ==
  [ st |-> "none", src |-> <<>>, stream |-> <<>>, cancel |-> FALSE,
    old_set |-> 0, old_clear |-> 0 ]

\* the thread has not returned from download_and_decode_advanced
Alive(th) == th.st \in { "run", "tail" }

\* a deck that is dropped or loaded again without touching the token
SetCancel_Skip(S, d) == S

\* `if let Some(ref token) = self.cancel_token { token.store(true, ..) }`
SetCancel(S, d) ==
  IF S.decks[d].cancel_token THEN [ S EXCEPT !.dec[d].cancel = TRUE ] ELSE S

\* the deck lets go of its token and of its receiver: the thread, if it
\* still exists, goes on with the flag it has
Detach(S, d) ==
  LET th == S.dec[d]
  IN [ S EXCEPT !.dec[d] =
         [ st |-> "none", src |-> <<>>, stream |-> <<>>, cancel |-> FALSE,
           old_set   |-> th.old_set + (IF Alive(th) /\ th.cancel THEN 1 ELSE 0),
           old_clear |-> th.old_clear + (IF Alive(th) /\ ~th.cancel THEN 1 ELSE 0) ] ]

\* `deck_x = Deck::new("X")`: the old deck is dropped (Drop sets its cancel
\* token, its receiver goes away) and a fresh deck takes its place
ReplaceDeck(S, d) ==
  [ Detach(SetCancel(S, d), d) EXCEPT !.decks[d] = Deck_new, !.chan[d] = NoChannel ]

\* a load that attaches the new decoder to the channel of the previous one,
\* with the chunks that wait in it
LoadDeck_KeepChannel(S, d, track) ==
  [ Detach(SetCancel(S, d), d) EXCEPT
      !.decks[d] = Deck_load(@),
      !.chan[d] = [ q |-> S.chan[d].q, open |-> TRUE ],
      !.dec[d].st = "run",
      !.dec[d].src = track,
      !.dec[d].stream = track ]

\* Deck::load seen from the mixer: the previous decoder is cancelled, a new
\* channel and a new decoder thread reading `track` are created
LoadDeck(S, d, track) ==
  [ Detach(SetCancel(S, d), d) EXCEPT
      !.decks[d] = Deck_load(@),
      !.chan[d] = [ q |-> <<>>, open |-> TRUE ],
      !.dec[d].st = "run",
      !.dec[d].src = track,
      !.dec[d].stream = track ]

\* buffer_prev_ready_x = false; end_sent_x = false; approaching_end_sent_x = false
ClearLatches(S, d) ==
  [ S EXCEPT !.mx.buffer_prev_ready[d] = FALSE,
             !.mx.end_sent[d] = FALSE,
             !.mx.approaching_end_sent[d] = FALSE ]

\* buffer_prev_ready_x = false; approaching_end_sent_x = false (end_sent kept)
ClearLatchesKeepEnd(S, d) ==
  [ S EXCEPT !.mx.buffer_prev_ready[d] = FALSE,
             !.mx.approaching_end_sent[d] = FALSE ]

\* a switch that leaves samples_played of the new active deck as it is
ZeroPlayed_Keep(S, x) == S

\* `if x == "A" { deck_a.samples_played = 0 } else if x == "B" { ... }`
ZeroPlayed(S, x) ==
  IF x \in Decks THEN [ S EXCEPT !.decks[x].samples_played = 0 ] ELSE S

\* `x.receiver.is_none() && x.samples.len() > 0`
DownloadDone(dk) == ~dk.receiver /\ Len(dk.samples) > 0

\* (duration_ms as usize * SAMPLE_RATE / 1000) * CHANNELS
CrossfadeTotalOf(duration_ms) == ((duration_ms * SAMPLE_RATE) \div 1000) * CHANNELS

\* ------------------------------------------------------------------------
\* Command handlers (main.rs:540-734)
\* ------------------------------------------------------------------------
Cmd_Load(S, deck, track) ==
  LET m  == S.mx
      S1 == IF m.crossfading /\ deck = m.active_deck
              THEN send_log(
                     ZeroPlayed([ S EXCEPT !.mx.crossfading = FALSE,
                                           !.mx.proactive_crossfade_triggered = FALSE,
                                           !.mx.crossfade_left = 0,
                                           !.mx.crossfade_total = 0,
                                           !.mx.active_deck = m.target_deck ],
                                m.target_deck),
                     "deck_changed", m.target_deck, "crossfade_snap")
              ELSE S
  IN IF deck \in Decks THEN ClearLatches(LoadDeck(S1, deck, track), deck) ELSE S1

\* a play that leaves the stall as it is
Cmd_Play_KeepStall(S, deck) ==
  send_log(
    ZeroPlayed([ S EXCEPT !.mx.active_deck = deck,
                          !.mx.crossfading = FALSE,
                          !.mx.proactive_crossfade_triggered = FALSE,
                          !.mx.is_playing = TRUE ], deck),
    "deck_changed", deck, "play_command")

Cmd_Play(S, deck) ==
  send_log(
    ZeroPlayed([ S EXCEPT !.mx.active_deck = deck,
                          !.mx.crossfading = FALSE,
                          !.mx.proactive_crossfade_triggered = FALSE,
                          !.mx.is_playing = TRUE,
                          !.mx.auto_gapless_stall = NoStall ], deck),
    "deck_changed", deck, "play_command")

\* a stop_deck that leaves is_playing as it is
Cmd_StopDeck_KeepPlaying(S, deck) ==
  LET S1 == [ S EXCEPT !.mx.auto_gapless_stall = NoStall ]
  IN IF deck \in Decks THEN ClearLatches(ReplaceDeck(S1, deck), deck) ELSE S1

Cmd_StopDeck(S, deck) ==
  LET S1 == [ S EXCEPT !.mx.auto_gapless_stall = NoStall ]
      S2 == IF deck \in Decks THEN ClearLatches(ReplaceDeck(S1, deck), deck) ELSE S1
  IN IF deck = S.mx.active_deck THEN [ S2 EXCEPT !.mx.is_playing = FALSE ] ELSE S2

\* the handler without the test of `crossfading`
Cmd_Crossfade_AlsoInCrossfade(S, duration_ms, to_deck) ==
  LET S1 == [ S EXCEPT !.mx.auto_gapless_stall = NoStall ]
      S2 == IF to_deck \in Decks THEN Deck_poll_receiver(S1, to_deck) ELSE S1
      tk == S2.decks[AElseB(to_deck)]
      target_ready  == Deck_is_ready_for_crossfade(tk)
      download_done == DownloadDone(tk)
  IN IF to_deck # S.mx.active_deck
       THEN IF target_ready \/ download_done
              THEN send_log([ S2 EXCEPT !.mx.crossfading = TRUE,
                                        !.mx.target_deck = to_deck,
                                        !.mx.crossfade_total = CrossfadeTotalOf(duration_ms),
                                        !.mx.crossfade_left = CrossfadeTotalOf(duration_ms),
                                        !.mx.pending_transition = NoPending ],
                            "crossfade_started", to_deck, S.mx.active_deck)
              ELSE [ S2 EXCEPT !.mx.pending_transition =
                                  SomePending(to_deck, TRUE, duration_ms) ]
       ELSE S1

\* Crossfade command (main.rs:603-629)
Cmd_Crossfade(S, duration_ms, to_deck) ==
  LET S1 == [ S EXCEPT !.mx.auto_gapless_stall = NoStall ]
      S2 == IF to_deck \in Decks THEN Deck_poll_receiver(S1, to_deck) ELSE S1
      tk == S2.decks[AElseB(to_deck)]
      target_ready  == Deck_is_ready_for_crossfade(tk)
      download_done == DownloadDone(tk)
  IN IF to_deck # S.mx.active_deck /\ ~S.mx.crossfading
       THEN IF target_ready \/ download_done
              THEN send_log([ S2 EXCEPT !.mx.crossfading = TRUE,
                                        !.mx.target_deck = to_deck,
                                        !.mx.crossfade_total = CrossfadeTotalOf(duration_ms),
                                        !.mx.crossfade_left = CrossfadeTotalOf(duration_ms),
                                        !.mx.pending_transition = NoPending ],
                            "crossfade_started", to_deck, S.mx.active_deck)
              ELSE [ S2 EXCEPT !.mx.pending_transition =
                                  SomePending(to_deck, TRUE, duration_ms) ]
       ELSE S1

Cmd_SetProactiveCrossfade(S, enabled) ==
  [ S EXCEPT !.mx.proactive_crossfade_enabled = enabled ]

Cmd_SetLoop(S, enabled) == [ S EXCEPT !.mx.loop_mode = enabled ]

\* the immediate branch of SkipTo, after buffer_ready was sent
SkipNow(S, target_deck, by) ==
  LET a  == S.mx.active_deck
      S1 == IF a \in Decks THEN ClearLatches(ReplaceDeck(S, a), a) ELSE S
      S2 == [ S1 EXCEPT !.mx.active_deck = target_deck,
                        !.mx.crossfading = FALSE,
                        !.mx.proactive_crossfade_triggered = FALSE,
                        !.mx.crossfade_left = 0,
                        !.mx.crossfade_total = 0,
                        !.mx.is_playing = TRUE ]
  IN send_log(ZeroPlayed(S2, target_deck), "deck_changed", target_deck, by)

Cmd_SkipTo(S, target_deck) ==
  LET S1 == [ S EXCEPT !.mx.auto_gapless_stall = NoStall ]
      S2 == IF target_deck \in Decks THEN Deck_poll_receiver(S1, target_deck) ELSE S1
      target_is_ready == target_deck \in Decks
                           /\ Deck_is_ready_for_crossfade(S2.decks[target_deck])
      download_done   == DownloadDone(S2.decks[AElseB(target_deck)])
  IN IF target_deck # S.mx.active_deck /\ target_deck # "C"
       THEN IF target_is_ready \/ download_done
              THEN LET S3 == SkipNow(send_log(S2, "buffer_ready", target_deck, "skip_to"),
                                     target_deck, "skip_command")
                   IN [ S3 EXCEPT !.mx.pending_transition = NoPending ]
              ELSE [ S2 EXCEPT !.mx.pending_transition =
                                  SomePending(target_deck, FALSE, 0) ]
       ELSE S1

Cmd_ApproveProposal(S, new_deck) ==
  IF new_deck # S.mx.active_deck /\ new_deck # "C"
       /\ S.mx.proactive_crossfade_triggered
    THEN [ S EXCEPT !.mx.crossfading = TRUE,
                    !.mx.target_deck = new_deck,
                    !.mx.crossfade_total = PROACTIVE_CROSSFADE_TOTAL,
                    !.mx.crossfade_left = PROACTIVE_CROSSFADE_TOTAL,
                    !.mx.proactive_crossfade_triggered = FALSE ]
    ELSE S

Cmd_PauseAll(S) == [ S EXCEPT !.mx.is_playing = FALSE ]

Cmd_ResumeAll(S) == [ S EXCEPT !.mx.is_playing = TRUE ]

Cmd_RestartDeck(S, deck) ==
  LET S1 == IF deck \in Decks
              THEN ClearLatches([ S EXCEPT !.decks[deck] = Deck_restart(@) ], deck)
              ELSE S
  IN send_log(S1, "deck_restarted", deck, "")

\* ------------------------------------------------------------------------
\* One mixer iteration, before the chunk (main.rs:737-919)
\* ------------------------------------------------------------------------
\* only deck A is polled
PollBoth_OnlyA(S) == Deck_poll_receiver(S, "A")

\* deck_a.poll_receiver(); deck_b.poll_receiver();
PollBoth(S) == Deck_poll_receiver(Deck_poll_receiver(S, "A"), "B")

\* a stall that never times out
StallTimedOut_Never(st) == FALSE

\* `stall_since.elapsed() >= Duration::from_secs(AUTO_GAPLESS_STALL_TIMEOUT_SECS)`
StallTimedOut(st) == st.age >= AUTO_GAPLESS_STALL_TIMEOUT_SECS

\* a stall check that switches decks without sending deck_changed
StallCheck_NoDeckChanged(S) ==
  LET st  == S.mx.auto_gapless_stall
      tgt == AElseB(st.target)
      S1  == Deck_poll_receiver(S, tgt)
      target_has_audio == Len(S1.decks[tgt].samples) > 0
      timed_out == StallTimedOut(st)
      old == AElseB(S.mx.active_deck)
      S2  == ClearLatchesKeepEnd(ReplaceDeck(S1, old), old)
      S3  == [ S2 EXCEPT !.mx.active_deck = st.target,
                         !.decks[tgt].samples_played = 0 ]
      S4  == send_log(S3, "auto_end_switch", st.target, "")
  IN IF ~st.some THEN S
     ELSE IF target_has_audio
       THEN [ S4 EXCEPT !.mx.auto_gapless_stall = NoStall ]
     ELSE IF timed_out
       THEN [ send_log(S1, "end", S.mx.active_deck, "")
                EXCEPT !.mx.auto_gapless_stall = NoStall ]
     ELSE S1

\* auto-gapless stall check (main.rs:744-783)
StallCheck(S) ==
  LET st  == S.mx.auto_gapless_stall
      tgt == AElseB(st.target)
      S1  == Deck_poll_receiver(S, tgt)
      target_has_audio == Len(S1.decks[tgt].samples) > 0
      timed_out == StallTimedOut(st)
      old == AElseB(S.mx.active_deck)
      S2  == ClearLatchesKeepEnd(ReplaceDeck(S1, old), old)
      S3  == [ S2 EXCEPT !.mx.active_deck = st.target,
                         !.decks[tgt].samples_played = 0 ]
      S4  == send_log(send_log(S3, "auto_end_switch", st.target, ""),
                      "deck_changed", st.target, "auto_gapless_stall")
  IN IF ~st.some THEN S
     ELSE IF target_has_audio
       THEN [ S4 EXCEPT !.mx.auto_gapless_stall = NoStall ]
     ELSE IF timed_out
       THEN [ send_log(S1, "end", S.mx.active_deck, "")
                EXCEPT !.mx.auto_gapless_stall = NoStall ]
     ELSE S1

\* a pending transition that never times out
PendingTimedOut_Never(p) == FALSE

\* `since.elapsed() >= Duration::from_secs(PENDING_TIMEOUT_SECS)`
PendingTimedOut(p) == p.age >= PENDING_TIMEOUT_SECS

\* pending transition check (main.rs:788-846)
PendingCheck(S) ==
  LET p  == S.mx.pending_transition
      tk == S.decks[AElseB(p.target)]
      ready     == Deck_is_ready_for_crossfade(tk)
      rx_done   == DownloadDone(tk)
      timed_out == PendingTimedOut(p)
      Scf == send_log([ S EXCEPT !.mx.crossfading = TRUE,
                                 !.mx.target_deck = p.target,
                                 !.mx.crossfade_total = CrossfadeTotalOf(p.dur),
                                 !.mx.crossfade_left = CrossfadeTotalOf(p.dur),
                                 !.mx.proactive_crossfade_triggered = FALSE ],
                      "crossfade_started", p.target, S.mx.active_deck)
      Ssk == SkipNow(S, p.target, "pending_skip")
      Sx  == IF p.is_cf THEN Scf ELSE Ssk
  IN IF p.some /\ (ready \/ rx_done \/ timed_out)
       THEN send_log([ Sx EXCEPT !.mx.pending_transition = NoPending ],
                     "buffer_ready", p.target, "pending")
       ELSE S

\* buffer monitoring, edge detection for buffer_ready (main.rs:849-865)
BufferMonitor(S) ==
  LET c  == S.mx.buffer_monitor_counter + 1
      a  == S.mx.active_deck
      b_ready == Deck_is_ready_for_crossfade(S.decks["B"])
      a_ready == Deck_is_ready_for_crossfade(S.decks["A"])
      S1 == IF (a = "A" \/ a = "C") /\ b_ready /\ ~S.mx.buffer_prev_ready["B"]
              THEN send_log(S, "buffer_ready", "B", "monitor") ELSE S
      S2 == [ S1 EXCEPT !.mx.buffer_prev_ready["B"] = b_ready ]
      S3 == IF (a = "B" \/ a = "C") /\ a_ready /\ ~S.mx.buffer_prev_ready["A"]
              THEN send_log(S2, "buffer_ready", "A", "monitor") ELSE S2
      S4 == [ S3 EXCEPT !.mx.buffer_prev_ready["A"] = a_ready ]
  IN IF c >= MONITOR_PERIOD
       THEN [ S4 EXCEPT !.mx.buffer_monitor_counter = 0 ]
       ELSE [ S EXCEPT !.mx.buffer_monitor_counter = c ]

\* proactive crossfade trigger (main.rs:886-909)
ProactiveTrigger(S) ==
  LET m   == S.mx
      cur == AElseB(m.active_deck)
      target_deck_name == IF m.active_deck = "A" THEN "B" ELSE "A"
      current_buffer_len == Len(S.decks[cur].samples)
      target_ready == Deck_is_ready_for_crossfade(S.decks[target_deck_name])
  IN IF ~m.crossfading /\ ~m.proactive_crossfade_triggered /\ m.is_playing
          /\ m.proactive_crossfade_enabled
          /\ current_buffer_len < PROACTIVE_THRESHOLD /\ target_ready
       THEN send_log([ S EXCEPT !.mx.crossfading = TRUE,
                                !.mx.target_deck = target_deck_name,
                                !.mx.crossfade_total = PROACTIVE_CROSSFADE_TOTAL,
                                !.mx.crossfade_left = PROACTIVE_CROSSFADE_TOTAL,
                                !.mx.proactive_crossfade_triggered = TRUE ],
                     "crossfade_started", target_deck_name, m.active_deck)
       ELSE S

\* the iteration up to the paused short-circuit (main.rs:738-872)
BeforePause(S) == BufferMonitor(PendingCheck(StallCheck(PollBoth(S))))

\* has_audio = false; mid_chunk_auto_switch = None; mid_chunk_loop_restart = false
ChunkStart(S) ==
  [ S EXCEPT !.mx.has_audio = FALSE,
             !.mx.mid_chunk_auto_switch = NoSwitch,
             !.mx.mid_chunk_loop_restart = FALSE ]

\* ------------------------------------------------------------------------
\* Chunk synthesis, one output slot (main.rs:921-1075)
\* ------------------------------------------------------------------------
\* An output value is the float num / (den * 32768).
Out(num, den) == [ num |-> num, den |-> den ]

Abs(x) == IF x < 0 THEN -x ELSE x

\* out.abs() > 0.0001
IsAudible(o) == Abs(o.num) * 10000 > 32768 * o.den

\* a mix that weighs both samples equally, whatever the ratio
Mix_Half(source_sample, target_sample, rn, rd) ==
  Out(source_sample + target_sample, 2)

\* source_sample * (1.0 - final_ratio) + target_sample * final_ratio, with
\* final_ratio = rn / rd
Mix(source_sample, target_sample, rn, rd) ==
  Out(source_sample * (rd - rn) + target_sample * rn, rd)

\* (out.max(-1.0).min(1.0) * 32767.0) as i16
ToPcm(o) ==
  LET n == IF o.num > 32768 * o.den THEN 32768 * o.den
           ELSE IF o.num < -(32768 * o.den) THEN -(32768 * o.den) ELSE o.num
      a == (Abs(n) * 32767) \div (32768 * o.den)
  IN IF n < 0 THEN -a ELSE a

\* crossfade finalization (main.rs:946-972)
CrossfadeFinalize(S) ==
  LET a  == S.mx.active_deck
      t  == S.mx.target_deck
      S1 == [ S EXCEPT !.mx.crossfading = FALSE,
                       !.mx.proactive_crossfade_triggered = FALSE ]
      S2 == IF a \in Decks THEN ClearLatches(S1, a) ELSE S1
      S3 == [ ZeroPlayed(S2, t) EXCEPT !.mx.active_deck = t ]
  IN send_log(S3, "deck_changed", t, "crossfade_completion")

\* the crossfading branch of the slot (main.rs:922-978); the result is the
\* state, the output and what the slot did (for the properties)
CrossfadeSlot(S) ==
  LET m   == S.mx
      tgt == AElseB(m.target_deck)
      target_has_audio == Len(S.decks[tgt].samples) > 0
      left == IF m.crossfade_left > 0 THEN m.crossfade_left - 1 ELSE 0
      \* final_ratio = rn / rd
      rn  == IF left = 0 THEN 1 ELSE m.crossfade_total - m.crossfade_left
      rd  == IF left = 0 THEN 1 ELSE m.crossfade_total
      \* target starved: the source only, gs its get_next_sample
      Starved(gs) ==
        [ S |-> gs.S, out |-> Out(UnwrapOr0(gs.r), 1), kind |-> "starved" ]
      \* both decks: S2 the state after the finalization, if any
      Mixed(S2, s_a, s_b) ==
        [ S |-> S2,
          out |-> Mix(IF S2.mx.active_deck = "A" THEN s_a ELSE s_b,
                      IF S2.mx.target_deck = "A" THEN s_a ELSE s_b, rn, rd),
          kind |-> "mixed" ]
      Counted(S1, s_a, s_b) ==
        Mixed(IF left = 0 THEN CrossfadeFinalize(S1) ELSE S1, s_a, s_b)
      Both(ga, gb) ==
        Counted([ gb.S EXCEPT !.mx.crossfade_left = left ],
                UnwrapOr0(ga.r), UnwrapOr0(gb.r))
      FromA(ga) == Both(ga, Deck_get_next_sample(ga.S, "B"))
  IN IF ~target_has_audio
       THEN Starved(Deck_get_next_sample(S, AElseB(m.active_deck)))
       ELSE FromA(Deck_get_next_sample(S, "A"))

\* the branch without crossfade (main.rs:980-1065)
DirectSlot(S) ==
  LET m   == S.mx
      act == AElseB(m.active_deck)
      other == IF m.active_deck = "A" THEN "B" ELSE "A"
      should_try_switch == ~m.crossfading /\ ~m.pending_transition.some
                             /\ ~m.auto_gapless_stall.some /\ m.is_playing
      Silence(S0) == [ S |-> S0, out |-> Out(0, 1), kind |-> "silence" ]
      \* mid-chunk loop restart, gl the first sample of the restarted deck
      Loop(gl) == [ S |-> gl.S, out |-> Out(UnwrapOr0(gl.r), 1), kind |-> "loop" ]
      \* mid-chunk auto-switch, gw the first sample of the new deck
      Switch(gw) == [ S |-> gw.S, out |-> Out(UnwrapOr0(gw.r), 1), kind |-> "switch" ]
      Switched(Ss0) ==
        Switch(Deck_get_next_sample(
                 [ Ss0 EXCEPT !.mx.active_deck = other,
                              !.decks[other].samples_played = 0,
                              !.mx.mid_chunk_auto_switch = other ], other))
      \* the active deck gave None, S0 the state after the call
      Exhausted(S0) ==
        IF should_try_switch
             /\ S0.decks[act].has_ended /\ ~S0.decks[act].receiver
             /\ S0.decks[act].samples_played >= MIN_SAMPLES_PLAYED_FOR_END
             /\ m.mid_chunk_auto_switch = NoSwitch
          THEN IF m.loop_mode
                 THEN Loop(Deck_get_next_sample(
                             [ S0 EXCEPT !.decks[act] = Deck_restart(@),
                                         !.mx.approaching_end_sent[act] = FALSE,
                                         !.mx.mid_chunk_loop_restart = TRUE ], act))
               ELSE IF Len(S0.decks[other].samples) > 0
                 THEN Switched(ClearLatchesKeepEnd(ReplaceDeck(S0, act), act))
               ELSE Silence(S0)
        ELSE Silence(S0)
      Got(gn) ==
        IF gn.r.some
          THEN [ S |-> gn.S, out |-> Out(gn.r.val, 1), kind |-> "direct" ]
          ELSE Exhausted(gn.S)
  IN Got(Deck_get_next_sample(S, act))

\* one slot of `for _ in 0..CHUNK_SIZE`
MixSlot(S) ==
  LET Audible(r) == [ r EXCEPT !.S.mx.has_audio = @ \/ IsAudible(r.out) ]
  IN Audible(IF S.mx.crossfading THEN CrossfadeSlot(S) ELSE DirectSlot(S))

\* ApproachingEndOf that never sets its latch
ApproachingEndOf_NoLatch(S, d) ==
  IF S.mx.active_deck = d /\ S.decks[d].has_ended /\ ~S.decks[d].receiver
       /\ ~S.mx.approaching_end_sent[d]
       /\ Len(S.decks[d].samples) < APPROACHING_END_THRESHOLD
    THEN send_log(S, "approaching_end", d, "")
    ELSE S

\* ------------------------------------------------------------------------
\* After the chunk (main.rs:1078-1229)
\* ------------------------------------------------------------------------
\* approaching_end of one deck (main.rs:1084-1096)
ApproachingEndOf(S, d) ==
  IF S.mx.active_deck = d /\ S.decks[d].has_ended /\ ~S.decks[d].receiver
       /\ ~S.mx.approaching_end_sent[d]
       /\ Len(S.decks[d].samples) < APPROACHING_END_THRESHOLD
    THEN [ send_log(S, "approaching_end", d, "")
             EXCEPT !.mx.approaching_end_sent[d] = TRUE ]
    ELSE S

ApproachingEnd(S) ==
  IF S.mx.is_playing /\ ~S.mx.crossfading
    THEN ApproachingEndOf(ApproachingEndOf(S, "A"), "B")
    ELSE S

\* MidChunkEvents without the deck_changed of the switch
MidChunkEvents_NoDeckChanged(S) ==
  LET m  == S.mx
      S1 == IF m.mid_chunk_loop_restart
              THEN send_log(S, "auto_loop_restart", m.active_deck, "")
              ELSE send_log(S, "auto_end_switch", m.mid_chunk_auto_switch, "")
  IN [ S1 EXCEPT !.mx.mid_chunk_auto_switch = NoSwitch,
                 !.mx.mid_chunk_loop_restart = FALSE ]

\* mid-chunk event flush (main.rs:1103-1117)
MidChunkEvents(S) ==
  LET m  == S.mx
      S1 == IF m.mid_chunk_loop_restart
              THEN send_log(S, "auto_loop_restart", m.active_deck, "")
              ELSE send_log(send_log(S, "auto_end_switch", m.mid_chunk_auto_switch, ""),
                            "deck_changed", m.mid_chunk_auto_switch,
                            "mid_chunk_auto_gapless")
  IN [ S1 EXCEPT !.mx.mid_chunk_auto_switch = NoSwitch,
                 !.mx.mid_chunk_loop_restart = FALSE ]

\* `t.elapsed() >= Duration::from_secs(30)` of Option<Instant>
DownloadStuck(load_started_at) ==
  load_started_at # NoInstant /\ load_started_at >= DOWNLOAD_STUCK_SECS

\* should_handle_end without the end_sent latch
ShouldHandleEnd_NoLatch(S) ==
  LET act == AElseB(S.mx.active_deck)
      dk  == S.decks[act]
  IN dk.has_ended /\ ~dk.receiver
       /\ dk.samples_played >= MIN_SAMPLES_PLAYED_FOR_END

\* should_handle_end without the played-enough gate
ShouldHandleEnd_NoGate(S) ==
  LET act == AElseB(S.mx.active_deck)
      dk  == S.decks[act]
  IN dk.has_ended /\ ~dk.receiver /\ ~S.mx.end_sent[act]

\* should_handle_end (main.rs:1128-1134)
ShouldHandleEnd(S) ==
  LET act == AElseB(S.mx.active_deck)
      dk  == S.decks[act]
  IN dk.has_ended /\ ~dk.receiver
       /\ dk.samples_played >= MIN_SAMPLES_PLAYED_FOR_END
       /\ ~S.mx.end_sent[act]

\* the silent-chunk gate of the post-chunk handling (main.rs:1127)
PostChunkGate(S) ==
  ~S.mx.has_audio /\ ~S.mx.crossfading /\ S.mx.is_playing
    /\ ~S.mx.pending_transition.some /\ ~S.mx.auto_gapless_stall.some

\* post-chunk auto-gapless (main.rs:1127-1228)
PostChunk(S) ==
  LET m     == S.mx
      act   == AElseB(m.active_deck)
      other == IF m.active_deck = "A" THEN "B" ELSE "A"
      S1    == [ S EXCEPT !.mx.end_sent[act] = TRUE ]
      \* loop
      Sloop == send_log([ S1 EXCEPT !.decks[act] = Deck_restart(@),
                                    !.mx.approaching_end_sent[act] = FALSE,
                                    !.mx.end_sent[act] = FALSE ],
                        "auto_loop_restart", m.active_deck, "")
      ok    == S1.decks[other]
      other_has_audio    == Len(ok.samples) > 0
      other_has_receiver == ok.receiver
      other_was_loaded   == other_has_receiver \/ Len(ok.full_samples) > 0
      \* auto-switch
      Ssw0  == ClearLatchesKeepEnd(ReplaceDeck(S1, act), act)
      Ssw1  == [ Ssw0 EXCEPT !.mx.active_deck = other,
                             !.decks[other].samples_played = 0 ]
      Ssw   == send_log(send_log(Ssw1, "auto_end_switch", other, ""),
                        "deck_changed", other, "auto_gapless")
      Send  == send_log(S1, "end", m.active_deck, "")
      Sstall == [ S1 EXCEPT !.mx.auto_gapless_stall = SomeStall(other) ]
  IN IF PostChunkGate(S) /\ ShouldHandleEnd(S)
       THEN IF m.loop_mode THEN Sloop
            ELSE IF other_has_audio THEN Ssw
            ELSE IF other_has_receiver
                   THEN IF DownloadStuck(ok.load_started_at) THEN Send ELSE Sstall
            ELSE Send
       ELSE S

\* the handling after the chunk without the mid-chunk branch
AfterChunk_AlwaysPost(S) == PostChunk(ApproachingEnd(S))

\* everything after the chunk
AfterChunk(S) ==
  LET S1 == ApproachingEnd(S)
  IN IF S1.mx.mid_chunk_auto_switch # NoSwitch \/ S1.mx.mid_chunk_loop_restart
       THEN MidChunkEvents(S1)
       ELSE PostChunk(S1)

\* ------------------------------------------------------------------------
\* State
\* ------------------------------------------------------------------------
VARIABLES
  decks,    \* deck_a and deck_b
  chan,     \* per deck, the bounded channel of the current load
  dec,      \* per deck, the decoder thread of the current load
  mx,       \* the locals of mixer_loop
  pc,       \* position of the mixer thread: "cmd", "mix" or "post";
            \* "exited" when the process is gone
  slot,     \* index of the next slot of the chunk
  out,      \* samples written to stdout in the current iteration
  emitted,  \* events sent by the last step of the mixer thread
  ncmds,    \* commands handled
  g,        \* history of the run, read by the properties only
  th        \* one decoder thread followed read by read, with its watchdog
            \* and its subprocesses

vars == << decks, chan, dec, mx, pc, slot, out, emitted, ncmds, g, th >>

Cur == [ decks |-> decks, chan |-> chan, dec |-> dec, mx |-> mx, ev |-> <<>> ]

HasEv(ev, kind, d) == \E i \in DOMAIN ev : ev[i].event = kind /\ ev[i].deck = d

CountEv(ev, kind, d) ==
  Cardinality({ i \in DOMAIN ev : ev[i].event = kind /\ ev[i].deck = d })

\* ------------------------------------------------------------------------
\* History
\* ------------------------------------------------------------------------
G_init ==
  [ appr      |-> [ d \in Decks |-> FALSE ],  \* approaching_end d since load d
    apprCount |-> [ d \in Decks |-> 0 ],      \* their number, at most 2
    endCount  |-> [ d \in Decks |-> 0 ],      \* end d since load d, at most 2
    apprEpoch |-> [ d \in Decks |-> 0 ],      \* approaching_end d since d was reset
    ann       |-> [ d \in Decks |-> FALSE ],  \* buffer_ready d sent, d ready since
    skipClean |-> FALSE,   \* a pending skip, no command since its skip_to
    xfClean   |-> FALSE,   \* a crossfade runs, no command and no starved slot
                           \* since it started
    xfMixed   |-> 0,       \* mixed samples since the crossfade started
    xfDone    |-> FALSE,   \* the last step finalized such a crossfade
    faded     |-> "",      \* the source of the last crossfade that completed,
                           \* "" once that deck was loaded again
    fadedTo   |-> "",      \* the target of that crossfade
    ended     |-> "",      \* the deck whose `end` was sent, no command since
    announced |-> "A",     \* the deck named by the last deck_changed, the
                           \* initial active deck before any
    last      |-> "",      \* the last step: "cmd", "begin", "slot" or "post"
    reload    |-> FALSE ]  \* the last step loaded a deck that had ended

\* the step resets deck d: load, stop_deck, restart_deck or loop restart of
\* d, or d is left by a skip, an auto-switch or a crossfade completion
\* (play and the snap of load leave the deck as it is)
ResetsDeck(step, arg, S1, kind, d) ==
  \/ step \in {"load", "stop_deck", "restart_deck"} /\ arg = d
  \/ step \in {"skip_to", "begin", "slot", "post"}
       /\ mx.active_deck = d /\ S1.mx.active_deck # d
  \/ step = "slot" /\ kind = "loop" /\ mx.active_deck = d
  \/ step = "post" /\ ~mx.mid_chunk_loop_restart /\ mx.active_deck = d
       /\ HasEv(S1.ev, "auto_loop_restart", d)

\* the history after a step of the mixer thread: step names the step
\* ("load", "play", ..., "begin", "slot", "post"), arg its deck argument,
\* S1 the state it leaves, kind what a slot did
G_step(step, arg, S1, kind) ==
  LET ev     == S1.ev
      isCmd  == step \notin {"begin", "slot", "post"}
      loaded(d) == step = "load" /\ arg = d
      completed == step = "slot" /\ mx.crossfading /\ ~S1.mx.crossfading
      started == S1.mx.crossfading
                   /\ ( ~mx.crossfading
                        \/ (step = "approve_proposal"
                              /\ mx.proactive_crossfade_triggered
                              /\ ~S1.mx.proactive_crossfade_triggered)
                        \/ (step = "begin"
                              /\ \E i \in DOMAIN ev : ev[i].event = "crossfade_started") )
  IN [ appr      |-> [ d \in Decks |->
                         IF loaded(d) THEN FALSE
                         ELSE g.appr[d] \/ HasEv(ev, "approaching_end", d) ],
       apprCount |-> [ d \in Decks |->
                         IF loaded(d) THEN 0
                         ELSE Min(2, g.apprCount[d] + CountEv(ev, "approaching_end", d)) ],
       endCount  |-> [ d \in Decks |->
                         IF loaded(d) THEN 0
                         ELSE Min(2, g.endCount[d] + CountEv(ev, "end", d)) ],
       apprEpoch |-> [ d \in Decks |->
                         IF ResetsDeck(step, arg, S1, kind, d) THEN 0
                         ELSE Min(2, g.apprEpoch[d] + CountEv(ev, "approaching_end", d)) ],
       ann       |-> [ d \in Decks |->
                         Deck_is_ready_for_crossfade(S1.decks[d])
                           /\ (g.ann[d] \/ HasEv(ev, "buffer_ready", d)) ],
       skipClean |-> IF isCmd
                       THEN step = "skip_to" /\ S1.mx.pending_transition.some
                              /\ ~S1.mx.pending_transition.is_cf
                              /\ S1.mx.pending_transition.target = arg
                       ELSE g.skipClean /\ S1.mx.pending_transition.some,
       xfClean   |-> IF started THEN TRUE
                     ELSE g.xfClean /\ S1.mx.crossfading /\ ~isCmd /\ kind # "starved",
       xfMixed   |-> IF started THEN 0
                     ELSE IF kind = "mixed" /\ g.xfMixed < MaxRead
                       THEN g.xfMixed + 1 ELSE g.xfMixed,
       xfDone    |-> step = "slot" /\ kind = "mixed" /\ g.xfClean
                       /\ mx.crossfading /\ ~S1.mx.crossfading,
       faded     |-> IF completed THEN mx.active_deck
                     ELSE IF step = "load" /\ arg = g.faded THEN ""
                     ELSE g.faded,
       fadedTo   |-> IF completed THEN mx.target_deck
                     ELSE IF step = "load" /\ arg = g.faded THEN ""
                     ELSE g.fadedTo,
       ended     |-> IF isCmd THEN ""
                     ELSE IF \E d \in Decks : HasEv(ev, "end", d)
                       THEN CHOOSE d \in Decks : HasEv(ev, "end", d)
                     ELSE g.ended,
       announced |-> LET idx == { i \in DOMAIN ev : ev[i].event = "deck_changed" }
                     IN IF idx = {} THEN g.announced
                        ELSE ev[CHOOSE i \in idx : \A j \in idx : j <= i].deck,
       last      |-> IF isCmd THEN "cmd" ELSE step,
       reload    |-> step = "load" /\ arg \in Decks /\ decks[arg].has_ended ]

\* ------------------------------------------------------------------------
\* Steps of the mixer thread
\* ------------------------------------------------------------------------
Commit(S) ==
  /\ decks' = S.decks
  /\ chan' = S.chan
  /\ dec' = S.dec
  /\ mx' = S.mx
  /\ emitted' = S.ev

\* a command taken from cmd_rx by `while let Ok(cmd) = cmd_rx.try_recv()`
Command(step, arg, S) ==
  /\ pc = "cmd"
  /\ ncmds < MaxCmds
  /\ Commit(S)
  /\ g' = G_step(step, arg, S, "")
  /\ ncmds' = ncmds + 1
  /\ UNCHANGED << pc, slot, out, th >>

DoLoad(d, track) == Command("load", d, Cmd_Load(Cur, d, track))
DoPlay(d) == Command("play", d, Cmd_Play(Cur, d))
DoStopDeck(d) == Command("stop_deck", d, Cmd_StopDeck(Cur, d))
DoCrossfade(ms, d) == Command("crossfade", d, Cmd_Crossfade(Cur, ms, d))
DoSetProactiveCrossfade(b) ==
  /\ b # mx.proactive_crossfade_enabled
  /\ Command("set_proactive_crossfade", "", Cmd_SetProactiveCrossfade(Cur, b))
DoSetLoop(b) ==
  /\ b # mx.loop_mode
  /\ Command("set_loop", "", Cmd_SetLoop(Cur, b))
DoSkipTo(d) == Command("skip_to", d, Cmd_SkipTo(Cur, d))
DoApproveProposal(d) == Command("approve_proposal", d, Cmd_ApproveProposal(Cur, d))
DoPauseAll == Command("pause_all", "", Cmd_PauseAll(Cur))
DoResumeAll == Command("resume_all", "", Cmd_ResumeAll(Cur))
DoRestartDeck(d) == Command("restart_deck", d, Cmd_RestartDeck(Cur, d))

\* a chunk of silence that is one sample short
SilentChunk_Short == [ i \in 1..(CHUNK_SIZE - 1) |-> Out(0, 1) ]

\* a chunk of CHUNK_SIZE zero samples (main.rs:876-878)
SilentChunk == [ i \in 1..CHUNK_SIZE |-> Out(0, 1) ]

\* the command queue is empty: the iteration runs up to the chunk loop
MixerBegin ==
  /\ pc = "cmd"
  /\ \A d \in Decks : decks[d].total_samples_read < MaxRead
  /\ LET \* paused: `continue` before the chunk
         Paused(S1) == /\ Commit(S1) /\ g' = G_step("begin", "", S1, "")
                       /\ out' = <<>> /\ pc' = "cmd"
         \* stalled: a chunk of silence is written, then `continue`
         Stalled(S1) == /\ Commit(S1) /\ g' = G_step("begin", "", S1, "")
                        /\ out' = SilentChunk /\ pc' = "cmd"
         Chunk(S2) == /\ Commit(S2) /\ g' = G_step("begin", "", S2, "")
                      /\ out' = <<>> /\ pc' = "mix"
         Begin(S1) == IF ~S1.mx.is_playing THEN Paused(S1)
                      ELSE IF S1.mx.auto_gapless_stall.some THEN Stalled(S1)
                      ELSE \E S2 \in { ChunkStart(ProactiveTrigger(S1)) } : Chunk(S2)
     IN \E S1 \in { BeforePause(Cur) } : Begin(S1)
  /\ slot' = 0
  /\ UNCHANGED << ncmds, th >>

\* a slot that writes nothing when it switches decks inside the chunk
MixerSlot_NoWriteOnSwitch ==
  /\ pc = "mix"
  /\ LET Write(r) == /\ Commit(r.S)
                     /\ g' = G_step("slot", "", r.S, r.kind)
                     /\ out' = IF r.kind = "switch" THEN out ELSE Append(out, r.out)
     IN Write(MixSlot(Cur))
  /\ slot' = slot + 1
  /\ pc' = IF slot + 1 >= CHUNK_SIZE THEN "post" ELSE "mix"
  /\ UNCHANGED << ncmds, th >>

\* one slot of `for _ in 0..CHUNK_SIZE` (main.rs:921-1075)
MixerSlot ==
  /\ pc = "mix"
  /\ LET Write(r) == /\ Commit(r.S)
                     /\ g' = G_step("slot", "", r.S, r.kind)
                     /\ out' = Append(out, r.out)
     IN \E r \in { MixSlot(Cur) } : Write(r)
  /\ slot' = slot + 1
  /\ pc' = IF slot + 1 >= CHUNK_SIZE THEN "post" ELSE "mix"
  /\ UNCHANGED << ncmds, th >>

MixerPost ==
  /\ pc = "post"
  /\ LET Post(S1) == Commit(S1) /\ g' = G_step("post", "", S1, "")
     IN Post(AfterChunk(Cur))
  /\ pc' = "cmd"
  /\ UNCHANGED << slot, out, ncmds, th >>

\* ------------------------------------------------------------------------
\* Decoder threads (download_and_decode_advanced, main.rs:395-483)
\* ------------------------------------------------------------------------
CanSend(d) == chan[d].open /\ Len(chan[d].q) < CHANNEL_CAPACITY

\* a full batch was read: tx.send(buffer.clone()); buffer.clear()
DecoderSend(d) ==
  /\ dec[d].st = "run"
  /\ Len(dec[d].src) >= DECODER_CHUNK
  /\ CanSend(d)
  /\ chan' = [ chan EXCEPT ![d].q = Append(@, SubSeq(dec[d].src, 1, DECODER_CHUNK)) ]
  /\ dec' = [ dec EXCEPT ![d].src =
                SubSeq(dec[d].src, DECODER_CHUNK + 1, Len(dec[d].src)) ]
  /\ UNCHANGED << decks, mx, pc, slot, out, emitted, ncmds, g, th >>

\* UnexpectedEof: the residual buffer is sent, and is not cleared
DecoderEof(d) ==
  /\ dec[d].st = "run"
  /\ Len(dec[d].src) < DECODER_CHUNK
  /\ IF dec[d].src # <<>>
       THEN /\ CanSend(d)
            /\ chan' = [ chan EXCEPT ![d].q = Append(@, dec[d].src) ]
       ELSE UNCHANGED chan
  /\ dec' = [ dec EXCEPT ![d].st = "tail" ]
  /\ UNCHANGED << decks, mx, pc, slot, out, emitted, ncmds, g, th >>

\* after the loop, not cancelled: the buffer is sent if not empty, the
\* function returns and tx is dropped
DecoderExit(d) ==
  /\ dec[d].st = "tail"
  /\ IF dec[d].src # <<>>
       THEN /\ CanSend(d)
            /\ chan' = [ chan EXCEPT ![d].q = Append(@, dec[d].src), ![d].open = FALSE ]
       ELSE chan' = [ chan EXCEPT ![d].open = FALSE ]
  /\ dec' = [ dec EXCEPT ![d].st = "done", ![d].src = <<>> ]
  /\ UNCHANGED << decks, mx, pc, slot, out, emitted, ncmds, g, th >>

\* a thread whose deck was dropped or loaded again breaks out of its loop
\* (its flag is set, or its send fails on the dropped receiver), kills and
\* reaps its subprocesses and returns
DecoderCancelled(d) ==
  /\ dec[d].old_set + dec[d].old_clear > 0
  /\ dec' = IF dec[d].old_set > 0
              THEN [ dec EXCEPT ![d].old_set = @ - 1 ]
              ELSE [ dec EXCEPT ![d].old_clear = @ - 1 ]
  /\ UNCHANGED << decks, chan, mx, pc, slot, out, emitted, ncmds, g, th >>

\* ------------------------------------------------------------------------
\* Time: TickSecs seconds pass for every Instant the program holds
\* ------------------------------------------------------------------------
Aged(age, deadline) == Min(age + TickSecs, deadline)

Tick ==
  LET p   == mx.pending_transition
      st  == mx.auto_gapless_stall
      mx1 == [ mx EXCEPT
                 !.pending_transition.age =
                    IF p.some THEN Aged(@, PENDING_TIMEOUT_SECS) ELSE @,
                 !.auto_gapless_stall.age =
                    IF st.some THEN Aged(@, AUTO_GAPLESS_STALL_TIMEOUT_SECS) ELSE @ ]
      dk1 == [ d \in Decks |->
                 [ decks[d] EXCEPT !.load_started_at =
                     IF @ # NoInstant THEN Aged(@, DOWNLOAD_STUCK_SECS) ELSE @ ] ]
  IN /\ mx1 # mx \/ dk1 # decks
     /\ mx' = mx1
     /\ decks' = dk1
     /\ UNCHANGED << chan, dec, pc, slot, out, emitted, ncmds, g, th >>

\* ------------------------------------------------------------------------
\* download_and_decode_advanced, one read at a time (main.rs:261-484)
\* ------------------------------------------------------------------------
\* pc: "none" before thread::spawn, "top" at the head of the loop, "read" in
\* read_i16, "send" in tx.send of a full batch, "eof" at the send of the
\* residual on UnexpectedEof, "exit" after the loop, "wait" at the two
\* wait() calls, "gone" after the return.  cancel and first_data are the two
\* atomic flags, cancelled the local.  buf is buffer.len(), pipe the samples
\* the transcoder has written and the thread has not read, written their
\* total.  procs is the state of the two subprocesses, reaped whether both
\* were waited for.  rx is whether the deck still holds the receiver, chq
\* the chunks in the channel.  wd_n counts the checks of the watchdog,
\* wd_st is "sleep" between checks, "fire" after the last one, "returned"
\* when it saw a flag, "done" after the kills.
NoThread ==
  [ pc |-> "none", cancel |-> FALSE, cancelled |-> FALSE, first_data |-> FALSE,
    buf |-> 0, pipe |-> 0, written |-> 0, procs |-> "none", reaped |-> FALSE,
    rx |-> FALSE, chq |-> 0, wd_n |-> 0, wd_st |-> "none" ]

\* `for _ in 0..60`: the checks of the watchdog, 500 ms apart
WATCHDOG_CHECKS == 3

ThreadStep(t) ==
  /\ th' = t
  /\ UNCHANGED << decks, chan, dec, mx, pc, slot, out, emitted, ncmds, g >>

\* Deck::load up to thread::spawn, and the thread up to its loop: channel,
\* token, subprocesses and watchdog are created
ThreadSpawn ==
  /\ th.pc = "none"
  /\ ThreadStep([ th EXCEPT !.pc = "top", !.procs = "running", !.rx = TRUE,
                            !.wd_st = "sleep" ])

\* the transcoder writes a sample to its stdout
SubprocWrite ==
  /\ th.procs = "running"
  /\ th.written < MaxRead
  /\ ThreadStep([ th EXCEPT !.pipe = @ + 1, !.written = @ + 1 ])

\* the subprocesses come to their end on their own
SubprocExit ==
  /\ th.procs = "running"
  /\ ThreadStep([ th EXCEPT !.procs = "exited" ])

\* `if cancel.load(..) { cancelled = true; break; }`, else on to read_i16
ThreadTop ==
  /\ th.pc = "top"
  /\ ThreadStep(IF th.cancel
                  THEN [ th EXCEPT !.cancelled = TRUE, !.pc = "exit" ]
                  ELSE [ th EXCEPT !.pc = "read" ])

\* read_i16 returns a sample: it is pushed, first_data_arrived is stored,
\* and a full buffer goes to tx.send
ThreadRead ==
  /\ th.pc = "read"
  /\ th.pipe > 0
  /\ ThreadStep([ th EXCEPT !.pipe = @ - 1, !.buf = @ + 1, !.first_data = TRUE,
                            !.pc = IF th.buf + 1 >= DECODER_CHUNK
                                     THEN "send" ELSE "top" ])

\* read_i16 returns UnexpectedEof: the write end of the pipe is closed
ThreadReadEof ==
  /\ th.pc = "read"
  /\ th.pipe = 0
  /\ th.procs \in { "exited", "killed" }
  /\ ThreadStep([ th EXCEPT !.pc = "eof" ])

\* tx.send(..) of a full batch: an error when the receiver is gone, a
\* wait while the channel is full
ThreadSend ==
  /\ th.pc = "send"
  /\ ~th.rx \/ th.chq < CHANNEL_CAPACITY
  /\ ThreadStep(IF ~th.rx
                  THEN [ th EXCEPT !.cancelled = TRUE, !.pc = "exit" ]
                  ELSE [ th EXCEPT !.chq = @ + 1, !.buf = 0, !.pc = "top" ])

\* `if !buffer.is_empty() { let _ = tx.send(buffer.clone()); }` and break
ThreadEofFlush ==
  /\ th.pc = "eof"
  /\ th.buf = 0 \/ ~th.rx \/ th.chq < CHANNEL_CAPACITY
  /\ ThreadStep([ th EXCEPT !.chq = IF th.buf > 0 /\ th.rx THEN @ + 1 ELSE @,
                            !.pc = "exit" ])

\* after the loop: the kills when cancelled, else the send of the buffer
ThreadExit ==
  /\ th.pc = "exit"
  /\ th.cancelled \/ th.buf = 0 \/ ~th.rx \/ th.chq < CHANNEL_CAPACITY
  /\ ThreadStep(IF th.cancelled
                  THEN [ th EXCEPT !.procs = "killed", !.pc = "wait" ]
                  ELSE [ th EXCEPT !.chq = IF th.buf > 0 /\ th.rx THEN @ + 1 ELSE @,
                                   !.pc = "wait" ])

\* ffmpeg_child.wait(); yt_dlp_child.wait(); Ok(()): tx is dropped
ThreadWait ==
  /\ th.pc = "wait"
  /\ th.procs \in { "exited", "killed" }
  /\ ThreadStep([ th EXCEPT !.reaped = TRUE, !.pc = "gone" ])

\* the watchdog wakes up: it returns when one of the flags is set, else it
\* counts the check, and leaves the loop after the last one
WatchdogCheck ==
  /\ th.wd_st = "sleep"
  /\ ThreadStep(IF th.first_data \/ th.cancel
                  THEN [ th EXCEPT !.wd_st = "returned" ]
                  ELSE [ th EXCEPT !.wd_n = @ + 1,
                                   !.wd_st = IF th.wd_n + 1 >= WATCHDOG_CHECKS
                                               THEN "fire" ELSE "sleep" ])

\* the watchdog kills both subprocesses by pid
WatchdogKill ==
  /\ th.wd_st = "fire"
  /\ ThreadStep([ th EXCEPT !.wd_st = "done",
                            !.procs = IF @ = "running" THEN "killed" ELSE @ ])

\* poll_receiver of the deck takes every chunk of the channel
Drain ==
  /\ th.rx
  /\ th.chq > 0
  /\ ThreadStep([ th EXCEPT !.chq = 0 ])

\* the deck is loaded again or dropped: the token is stored true and the
\* receiver goes away
OwnerCancel ==
  /\ th.pc # "none"
  /\ th.rx
  /\ ThreadStep([ th EXCEPT !.cancel = TRUE, !.rx = FALSE, !.chq = 0 ])

\* ------------------------------------------------------------------------
\* Specifications
\* ------------------------------------------------------------------------
Init ==
  /\ decks = [ d \in Decks |-> Deck_new ]
  /\ chan = [ d \in Decks |-> NoChannel ]
  /\ dec = [ d \in Decks |-> NoDecoder ]
  /\ mx = Mixer_init
  /\ pc = "cmd"
  /\ slot = 0
  /\ out = <<>>
  /\ emitted = <<>>
  /\ ncmds = 0
  /\ g = G_init
  /\ th = NoThread

Mixer == MixerBegin \/ MixerSlot \/ MixerPost

\* the threads attached to the decks, and all decoder threads
Attached == \E d \in Decks : DecoderSend(d) \/ DecoderEof(d) \/ DecoderExit(d)

Decoders == Attached \/ \E d \in Decks : DecoderCancelled(d)

\* Decoded streams (i16 samples).  A stream of 7 samples is delivered as one
\* batch of 4 and the residual of 3, the residual twice.
TrackTail == <<8, 8, 8, 8, 0, 0, 0>>
TrackShort == <<8, 8, 8>>
TrackFull == <<8, 8, 8, 8>>
TrackOne == <<8>>

\* Gapless playback: load, play, set_loop, restart_deck
CommandsAuto ==
  \/ \E t \in { TrackFull, TrackTail } : DoLoad("A", t)
  \/ DoLoad("B", TrackOne)
  \/ \E d \in Decks : DoPlay(d)
  \/ \E b \in BOOLEAN : DoSetLoop(b)
  \/ \E d \in Decks : DoRestartDeck(d)

Next == CommandsAuto \/ Mixer \/ Decoders \/ Tick

Spec == Init /\ [][Next]_vars

\* Transitions on command: load, play, skip_to, crossfade
Durations == { 0, 2 }

CommandsSkip ==
  \/ DoLoad("A", TrackFull)
  \/ DoLoad("B", TrackShort)
  \/ \E d \in Decks : DoPlay(d)
  \/ \E d \in Decks : DoSkipTo(d)
  \/ \E d \in Decks, ms \in Durations : DoCrossfade(ms, d)

NextSkip == CommandsSkip \/ Mixer \/ Decoders \/ Tick

SpecSkip == Init /\ [][NextSkip]_vars

\* One deck: A is loaded once and played, nothing else is commanded
CommandsSolo ==
  \/ \E t \in { TrackFull, TrackTail } :
       /\ ~decks["A"].cancel_token
       /\ DoLoad("A", t)
  \/ DoPlay("A")

\* (no deck is loaded twice or replaced while its thread exists)
NextSolo == CommandsSolo \/ Mixer \/ Attached \/ Tick

SpecSolo == Init /\ [][NextSolo]_vars

\* the n-th command of a fixed sequence of commands
CommandAt(n, step, arg, S) ==
  /\ pc = "cmd"
  /\ ncmds = n
  /\ Commit(S)
  /\ g' = G_step(step, arg, S, "")
  /\ ncmds' = ncmds + 1
  /\ UNCHANGED << pc, slot, out, th >>

\* Pause and stop during gapless playback: load B, load A, play A, then
\* pause_all or stop_deck, then resume_all, in this order, each at any time
CommandsPause ==
  \/ CommandAt(0, "load", "B", Cmd_Load(Cur, "B", TrackOne))
  \/ CommandAt(1, "load", "A", Cmd_Load(Cur, "A", TrackFull))
  \/ CommandAt(2, "play", "A", Cmd_Play(Cur, "A"))
  \/ CommandAt(3, "pause_all", "", Cmd_PauseAll(Cur))
  \/ \E d \in Decks : CommandAt(3, "stop_deck", d, Cmd_StopDeck(Cur, d))
  \/ CommandAt(4, "resume_all", "", Cmd_ResumeAll(Cur))

NextPause == CommandsPause \/ Mixer \/ Decoders \/ Tick

SpecPause == Init /\ [][NextPause]_vars

\* ------------------------------------------------------------------------
\* Deck names as the controller may send them: the strings are not checked
\* when a command is parsed
Names == { "A", "B", "C" }

\* Commands with any deck name: load B, then play, crossfade, skip_to and
\* approve_proposal
CommandsNames ==
  \/ DoLoad("B", TrackFull)
  \/ \E n \in Names : DoPlay(n)
  \/ \E n \in Names, ms \in Durations : DoCrossfade(ms, n)
  \/ \E n \in Names : DoSkipTo(n)
  \/ \E n \in Names : DoApproveProposal(n)

NextNames == CommandsNames \/ Mixer \/ Decoders \/ Tick

SpecNames == Init /\ [][NextNames]_vars

\* The process: main forwards the commands read from stdin to the mixer
\* thread and returns when stdin is at its end, which ends the process with
\* all its threads; the Stop command calls exit.  pc = "exited" is the
\* process gone.
NoData == <<>>

\* `InputCommand::Stop => std::process::exit(0)`
DoStop ==
  /\ pc = "cmd"
  /\ ncmds < MaxCmds
  /\ pc' = "exited"
  /\ ncmds' = ncmds + 1
  /\ g' = [ g EXCEPT !.last = "cmd", !.reload = FALSE, !.ended = "" ]
  /\ emitted' = <<>>
  /\ UNCHANGED << decks, chan, dec, mx, slot, out, th >>

\* `for item in iterator { .. }` is over and main returns
StdinEof ==
  /\ pc # "exited"
  /\ pc' = "exited"
  /\ UNCHANGED << decks, chan, dec, mx, slot, out, emitted, ncmds, g, th >>

\* load A (a stream, or a decoder that fails before its first sample), play
\* A, stop
CommandsMain ==
  \/ \E t \in { TrackFull, NoData } : DoLoad("A", t)
  \/ DoPlay("A")
  \/ DoStop

\* the decoder threads and the clocks of a process that has not exited
AttachedMain == pc # "exited" /\ Attached
TickMain == pc # "exited" /\ Tick

NextMain == CommandsMain \/ Mixer \/ AttachedMain \/ TickMain \/ StdinEof

SpecMain == Init /\ [][NextMain]_vars

\* the mixer thread loops without blocking, a decoder thread that can send
\* or return does so, and time passes
FairMain == WF_vars(Mixer) /\ WF_vars(AttachedMain) /\ WF_vars(TickMain)
SpecMainFair == SpecMain /\ FairMain

\* One decoder thread from its start to its return.  The steps of the
\* thread, of its watchdog and of the mixer are steps of running threads of
\* the process, which the operating system schedules: each is taken if it
\* stays possible.  What the subprocesses write and when they end is not
\* up to the program; when the deck is cancelled is up to the controller.
NextCancel ==
  \/ ThreadSpawn \/ SubprocWrite \/ SubprocExit
  \/ ThreadTop \/ ThreadRead \/ ThreadReadEof \/ ThreadSend
  \/ ThreadEofFlush \/ ThreadExit \/ ThreadWait
  \/ WatchdogCheck \/ WatchdogKill
  \/ Drain \/ OwnerCancel

FairCancel ==
  /\ WF_vars(ThreadTop) /\ WF_vars(ThreadRead) /\ WF_vars(ThreadReadEof)
  /\ WF_vars(ThreadSend) /\ WF_vars(ThreadEofFlush) /\ WF_vars(ThreadExit)
  /\ WF_vars(ThreadWait)
  /\ WF_vars(WatchdogCheck) /\ WF_vars(WatchdogKill)
  /\ WF_vars(Drain)

SpecCancel == Init /\ [][NextCancel]_vars /\ FairCancel

\* Which step of the mixer thread a transition is
\* ------------------------------------------------------------------------
IsCmd == ncmds' = ncmds + 1
IsBegin == mx'.buffer_monitor_counter # mx.buffer_monitor_counter
IsSlot == slot' = slot + 1
IsPost == pc = "post" /\ pc' = "cmd"
IsMixerStep == IsCmd \/ IsBegin \/ IsSlot \/ IsPost

TypeOK ==
  /\ pc \in {"cmd", "mix", "post", "exited"}
  /\ slot \in 0..CHUNK_SIZE
  /\ Len(out) <= CHUNK_SIZE

\* ------------------------------------------------------------------------
\* Properties
\* ------------------------------------------------------------------------
IsEv(e, kind, d) == e.event = kind /\ e.deck = d

\* C1: every auto_end_switch X is followed by deck_changed deck=X, with no
\* other event in between: the two are sent one after the other by the same
\* step, on the stall, mid-chunk and post-chunk paths.
C1_AutoEndSwitchPaired ==
  \A i \in DOMAIN emitted :
    emitted[i].event = "auto_end_switch"
      => /\ i < Len(emitted)
         /\ IsEv(emitted[i + 1], "deck_changed", emitted[i].deck)

\* C1, witness: a stall was resolved by the first samples of the target
C1_Witness ==
  \E i \in DOMAIN emitted :
    /\ emitted[i].event = "auto_end_switch"
    /\ i < Len(emitted)
    /\ emitted[i + 1].info = "auto_gapless_stall"
    /\ mx.active_deck = emitted[i].deck

\* the two other paths of C1
C1_ReachMidChunk ==
  ~ \E i \in DOMAIN emitted :
      emitted[i].event = "deck_changed" /\ emitted[i].info = "mid_chunk_auto_gapless"
C1_ReachPostChunk ==
  ~ \E i \in DOMAIN emitted :
      emitted[i].event = "deck_changed" /\ emitted[i].info = "auto_gapless"

\* C2: an end X is sent only if an approaching_end X was sent earlier since
\* the most recent load of X.
C2_EndAfterApproaching ==
  [][ IsMixerStep =>
        \A i \in DOMAIN emitted' : \A d \in Decks :
          IsEv(emitted'[i], "end", d)
            => \/ g.appr[d]
               \/ \E j \in 1..(i - 1) : IsEv(emitted'[j], "approaching_end", d) ]_vars

C6_EndOnce ==
  [][ /\ g'.endCount["A"] <= 1
      /\ ( /\ IsPost
           /\ mx.active_deck = "A" /\ mx.is_playing
           /\ decks["A"].has_ended /\ ~decks["A"].receiver
           /\ decks["A"].samples = <<>> /\ ~mx.has_audio
           /\ decks["A"].samples_played >= MIN_SAMPLES_PLAYED_FOR_END )
          => g'.endCount["A"] = 1 ]_vars

\* C6, witness: end A was sent, and a later iteration wrote a chunk of
\* silence without sending anything
C6_Witness ==
  /\ g.endCount["A"] = 1
  /\ mx.end_sent["A"]
  /\ decks["A"].samples = <<>>
  /\ pc = "cmd" /\ emitted = <<>> /\ out = SilentChunk

\* C3: at most one buffer_ready X per transition of X from not ready to
\* ready, counting the periodic detection, the immediate skip_to and the
\* execution of a pending transition: none is sent while X has stayed ready
\* since the previous one, and no step sends two.
C3_OneBufferReadyPerEdge ==
  [][ IsMixerStep =>
        \A d \in Decks :
          /\ CountEv(emitted', "buffer_ready", d) <= 1
          /\ HasEv(emitted', "buffer_ready", d) => ~g.ann[d] ]_vars

\* C5: the events of a transition toward X come in causal order: within the
\* events of one step no buffer_ready X follows a crossfade_started to=X or
\* a deck_changed deck=X.
C5_CausalOrder ==
  \A i \in DOMAIN emitted : \A j \in DOMAIN emitted :
    ( /\ i < j
      /\ emitted[i].event \in { "crossfade_started", "deck_changed" }
      /\ emitted[j].event = "buffer_ready" )
      => emitted[j].deck # emitted[i].deck

\* the sample written by the last slot
LastOut == out[Len(out)]

Max(a, b) == IF a > b THEN a ELSE b

\* the queue of deck d as get_next_sample finds it after polling
Queued(d) ==
  IF decks[d].receiver THEN decks[d].samples \o Flatten(chan[d].q)
  ELSE decks[d].samples

\* C7: a crossfade of crossfade_total = N whose target always has queued
\* samples, no command intervening, finalizes after exactly N mixed samples,
\* and its last sample is the target's sample (ratio 1.0); for every N,
\* duration_ms = 0 included.
C7_ExactlyNMixed ==
  [][ (IsSlot /\ g'.xfDone) =>
        /\ g'.xfMixed = mx.crossfade_total
        /\ LastOut' = Out(Head(decks[mx.target_deck].samples), 1) ]_vars

\* C7, amended: such a crossfade finalizes after exactly max(N, 1) mixed
\* samples, the last of them being the target's sample (ratio 1.0): with
\* duration_ms = 0 one sample of each deck is consumed before the switch.
C7_MaxN1Mixed ==
  [][ (IsSlot /\ g'.xfDone) =>
        /\ g'.xfMixed = Max(mx.crossfade_total, 1)
        /\ mx'.active_deck = mx.target_deck
        /\ LastOut' = Out(Head(decks[mx.target_deck].samples), 1) ]_vars

\* C7, witness: a crossfade of N = PROACTIVE_CROSSFADE_TOTAL mixed samples
\* has just finalized
C7_Witness ==
  /\ g.xfDone /\ ~mx.crossfading
  /\ mx.crossfade_total = PROACTIVE_CROSSFADE_TOTAL
  /\ g.xfMixed = PROACTIVE_CROSSFADE_TOTAL
  /\ mx.active_deck = mx.target_deck

\* a crossfade of duration_ms = 0 has just finalized
C7_ReachZero == ~(g.xfDone /\ mx.crossfade_total = 0)

\* C8: at a slot of a crossfade whose target has no queued sample,
\* crossfade_left is unchanged, no sample is taken from the target, and the
\* output is the next sample of the source at full amplitude.
C8_StarvedSlot ==
  [][ ( /\ IsSlot /\ mx.crossfading
        /\ mx.target_deck \in Decks
        /\ decks[mx.target_deck].samples = <<>> )
      => /\ mx'.crossfade_left = mx.crossfade_left
         /\ mx'.crossfading
         /\ decks'[mx.target_deck].samples_played
              = decks[mx.target_deck].samples_played
         /\ LastOut' = IF Queued(mx.active_deck) # <<>>
                         THEN Out(Head(Queued(mx.active_deck)), 1)
                         ELSE Out(0, 1) ]_vars

\* C8 outside the crossfades of a deck into itself
C8_StarvedSlotDistinct ==
  [][ ( /\ IsSlot /\ mx.crossfading
        /\ mx.target_deck \in Decks /\ mx.target_deck # mx.active_deck
        /\ decks[mx.target_deck].samples = <<>> )
      => /\ mx'.crossfade_left = mx.crossfade_left
         /\ mx'.crossfading
         /\ decks'[mx.target_deck] = decks[mx.target_deck]
         /\ chan'[mx.target_deck] = chan[mx.target_deck]
         /\ LastOut' = IF Queued(mx.active_deck) # <<>>
                         THEN Out(Head(Queued(mx.active_deck)), 1)
                         ELSE Out(0, 1) ]_vars

\* C9: while a skip_to B enqueued with A active is pending and no command
\* has followed, no step of the mixer changes active_deck, sends
\* deck_changed or discards the buffers of the active deck; and the step
\* that executes it finds B ready, or completed with samples, or the
\* pending transition 8 s old.
C9_PendingSkipHolds ==
  [][ (g.skipClean /\ (IsBegin \/ IsSlot \/ IsPost)) =>
        IF mx'.pending_transition.some
          THEN /\ mx'.active_deck = mx.active_deck
               /\ \A d \in Decks : ~HasEv(emitted', "deck_changed", d)
               /\ Len(decks'[mx.active_deck].full_samples)
                    >= Len(decks[mx.active_deck].full_samples)
          ELSE LET t == mx.pending_transition.target
               IN \/ Deck_is_ready_for_crossfade(decks'[t])
                  \/ DownloadDone(decks'[t])
                  \/ PendingTimedOut(mx.pending_transition) ]_vars

\* C10: a pending transition (skip or crossfade) that is 8 s old when an
\* iteration of the mixer begins is executed and cleared by that iteration,
\* whether or not its target has data and whether playback is paused or not.
C10_PendingTimeout ==
  [][ ( /\ IsBegin
        /\ mx.pending_transition.some
        /\ mx.pending_transition.age >= PENDING_TIMEOUT_SECS )
      => /\ ~mx'.pending_transition.some
         /\ HasEv(emitted', "buffer_ready", mx.pending_transition.target)
         /\ IF mx.pending_transition.is_cf
              THEN /\ mx'.crossfading
                   /\ mx'.target_deck = mx.pending_transition.target
              ELSE mx'.active_deck = mx.pending_transition.target ]_vars

\* C10, witness: a pending crossfade toward a deck that never had data was
\* executed while playback was paused
C10_Witness ==
  \E d \in Decks :
    /\ \E i \in DOMAIN emitted : emitted[i] = Ev("buffer_ready", d, "pending")
    /\ HasEv(emitted, "crossfade_started", d)
    /\ ~mx.pending_transition.some /\ ~mx.is_playing
    /\ decks[d].samples = <<>> /\ ~decks[d].receiver
    /\ mx.crossfading /\ mx.target_deck = d

\* C11: an iteration that begins with a stall set ends it in one of two
\* ways.  If the target has a queued sample after the polls, the old active
\* deck is a fresh deck, active_deck is the target, auto_end_switch and then
\* deck_changed naming the target are sent and no end is sent.  Otherwise, if
\* 10 s have passed since the stall began, end naming the active deck is
\* sent and the stall is cleared.  Otherwise the stall stays as it is and
\* none of these events is sent.
C11_StallOutcome ==
  [][ (IsBegin /\ mx.auto_gapless_stall.some) =>
        LET t == mx.auto_gapless_stall.target
            a == mx.active_deck
        IN IF Queued(t) # <<>>
             THEN /\ ~mx'.auto_gapless_stall.some
                  /\ mx'.active_deck = t
                  /\ a # t
                  /\ decks'[a] = Deck_new
                  /\ Len(emitted') >= 2
                  /\ emitted'[1] = Ev("auto_end_switch", t, "")
                  /\ emitted'[2] = Ev("deck_changed", t, "auto_gapless_stall")
                  /\ \A d \in Decks : ~HasEv(emitted', "end", d)
           ELSE IF mx.auto_gapless_stall.age >= AUTO_GAPLESS_STALL_TIMEOUT_SECS
             THEN /\ ~mx'.auto_gapless_stall.some
                  /\ mx'.active_deck = a
                  /\ Len(emitted') >= 1
                  /\ emitted'[1] = Ev("end", a, "")
                  /\ CountEv(emitted', "end", a) = 1
                  /\ \A d \in Decks : ~HasEv(emitted', "auto_end_switch", d)
           ELSE /\ mx'.auto_gapless_stall = mx.auto_gapless_stall
                /\ mx'.active_deck = a
                /\ \A d \in Decks :
                     /\ ~HasEv(emitted', "end", d)
                     /\ ~HasEv(emitted', "auto_end_switch", d)
                     /\ ~HasEv(emitted', "deck_changed", d) ]_vars

\* C11, witness: a stall timed out; its iteration sent end for the active
\* deck and went on to the chunk
C11_Witness ==
  /\ pc = "mix" /\ slot = 0
  /\ ~mx.auto_gapless_stall.some
  /\ emitted # <<>>
  /\ emitted[1] = Ev("end", mx.active_deck, "")

\* the events of the proactive-crossfade, approaching-end and post-chunk
\* steps
ChunkStepEvents ==
  { "crossfade_started", "approaching_end", "end", "auto_end_switch",
    "auto_loop_restart", "deck_changed" }

\* C12: an iteration that leaves the stall set with is_playing true writes
\* exactly one chunk of CHUNK_SIZE zero samples and returns to the command
\* drain: no sample is popped (each queue is the queue found after the
\* polls), samples_played and total_samples_read of both decks are
\* unchanged, and the proactive-crossfade, approaching-end and post-chunk
\* steps do not run (no event of theirs, their flags unchanged).
C12_StallSilence ==
  [][ (IsBegin /\ mx'.auto_gapless_stall.some /\ mx'.is_playing) =>
        /\ Len(out') = CHUNK_SIZE
        /\ \A i \in 1..CHUNK_SIZE : ToPcm(out'[i]) = 0
        /\ pc' = "cmd"
        /\ \A d \in Decks :
             /\ decks'[d].samples = Queued(d)
             /\ decks'[d].samples_played = decks[d].samples_played
             /\ decks'[d].total_samples_read = decks[d].total_samples_read
        /\ \A i \in DOMAIN emitted' : emitted'[i].event \notin ChunkStepEvents
        /\ mx'.crossfading = mx.crossfading
        /\ mx'.proactive_crossfade_triggered = mx.proactive_crossfade_triggered
        /\ mx'.approaching_end_sent = mx.approaching_end_sent
        /\ mx'.end_sent = mx.end_sent
        /\ mx'.active_deck = mx.active_deck ]_vars

\* C12, witness: a stalled iteration has written its chunk of silence while
\* the active deck is drained and the target has no sample yet
C12_Witness ==
  /\ pc = "cmd"
  /\ mx.auto_gapless_stall.some /\ mx.is_playing
  /\ mx.auto_gapless_stall.target # mx.active_deck
  /\ Len(out) = CHUNK_SIZE
  /\ \A i \in 1..CHUNK_SIZE : ToPcm(out[i]) = 0
  /\ decks[mx.auto_gapless_stall.target].samples = <<>>
  /\ g.last = "begin"

\* the decoder of deck d has completed, nothing is queued after the polls
\* and the deck has played at least the played gate
DrainedPastGate(d) ==
  /\ Queued(d) = <<>>
  /\ ~decks[d].receiver \/ ~chan[d].open
  /\ decks[d].samples_played >= MIN_SAMPLES_PLAYED_FOR_END

C13_ReachPostChunk ==
  ~ ( /\ g.last = "post" /\ mx.loop_mode
      /\ HasEv(emitted, "auto_loop_restart", mx.active_deck)
      /\ decks[mx.active_deck].samples_played = 0
      /\ decks[mx.active_deck].samples = decks[mx.active_deck].full_samples )

\* C14: what an iteration has written is a prefix of one chunk while the
\* chunk loop runs (one sample per slot), exactly CHUNK_SIZE samples after
\* the loop, and nothing or exactly CHUNK_SIZE samples when the iteration is
\* over; every sample is a 16-bit value.
C14_OneChunk ==
  /\ pc = "mix" => Len(out) = slot /\ slot < CHUNK_SIZE
  /\ pc = "post" => Len(out) = CHUNK_SIZE
  /\ pc = "cmd" => Len(out) \in { 0, CHUNK_SIZE }
  /\ \A i \in DOMAIN out : ToPcm(out[i]) \in -32768..32767

\* C14, witness: the iteration of a mid-chunk switch is over and has written
\* one chunk, samples of both decks in it
C14_Witness ==
  /\ g.last = "post" /\ pc = "cmd"
  /\ Len(out) = CHUNK_SIZE
  /\ \E i \in DOMAIN emitted :
       emitted[i] = Ev("deck_changed", mx.active_deck, "mid_chunk_auto_gapless")
  /\ \A i \in DOMAIN out : ToPcm(out[i]) # 0

\* the iteration whose chunk finalized a crossfade
C14_ReachFinalize ==
  ~ ( /\ pc = "post" /\ Len(out) = CHUNK_SIZE
      /\ HasEv(emitted, "deck_changed", mx.active_deck)
      /\ g.xfDone )

\* C15: an iteration that finds is_playing false after the pending check
\* writes nothing and returns to the command drain, and samples_played and
\* total_samples_read of both decks are unchanged; the receivers were
\* drained and the buffer monitor ran.
C15_PausedUnchanged ==
  [][ (IsBegin /\ ~mx'.is_playing) =>
        /\ out' = <<>> /\ pc' = "cmd"
        /\ \A d \in Decks :
             /\ decks'[d].samples_played = decks[d].samples_played
             /\ decks'[d].total_samples_read = decks[d].total_samples_read
             /\ decks'[d].samples = Queued(d)
             /\ decks[d].receiver => chan'[d].q = <<>> ]_vars

\* the iteration resolves a stall by the switch to its target
StallSwitches ==
  /\ mx.auto_gapless_stall.some
  /\ Queued(mx.auto_gapless_stall.target) # <<>>

\* C15, amended: an iteration that finds is_playing false after the pending
\* check writes nothing, pops no sample and returns to the command drain.
\* samples_played and total_samples_read of both decks are unchanged, unless
\* the iteration resolves a stall by the switch: then the old active deck is
\* a fresh deck, the target keeps its queue and has samples_played = 0.  The
\* receivers are drained, a stall past its deadline is cleared, a pending
\* transition past its deadline is executed and the buffer monitor counts
\* the iteration.
C15_PausedNoPop ==
  [][ (IsBegin /\ ~mx'.is_playing) =>
        /\ out' = <<>> /\ pc' = "cmd"
        /\ \A d \in Decks : decks[d].receiver => chan'[d].q = <<>>
        /\ IF StallSwitches
             THEN /\ decks'[mx.active_deck] = Deck_new
                  /\ mx'.active_deck = mx.auto_gapless_stall.target
                  /\ decks'[mx'.active_deck].samples = Queued(mx'.active_deck)
                  /\ decks'[mx'.active_deck].samples_played = 0
                  /\ decks'[mx'.active_deck].total_samples_read
                       = decks[mx'.active_deck].total_samples_read
                  /\ ~mx'.auto_gapless_stall.some
             ELSE /\ \A d \in Decks :
                       /\ decks'[d].samples = Queued(d)
                       /\ decks'[d].samples_played = decks[d].samples_played
                       /\ decks'[d].total_samples_read = decks[d].total_samples_read
                  /\ mx.auto_gapless_stall.age >= AUTO_GAPLESS_STALL_TIMEOUT_SECS
                       => ~mx'.auto_gapless_stall.some
        /\ mx.pending_transition.age >= PENDING_TIMEOUT_SECS
             => ~mx'.pending_transition.some
        /\ mx'.buffer_monitor_counter
             = (mx.buffer_monitor_counter + 1) % MONITOR_PERIOD ]_vars

\* C15, witness: a paused iteration is over; it resolved a stall by the
\* switch and wrote nothing, the new active deck has its samples queued and
\* unplayed
C15_Witness ==
  /\ g.last = "begin" /\ pc = "cmd" /\ ~mx.is_playing
  /\ out = <<>>
  /\ emitted = << Ev("auto_end_switch", mx.active_deck, ""),
                  Ev("deck_changed", mx.active_deck, "auto_gapless_stall") >>
  /\ decks[mx.active_deck].samples # <<>>
  /\ decks[mx.active_deck].samples = decks[mx.active_deck].full_samples
  /\ decks[mx.active_deck].samples_played = 0

\* C16: for each deck, samples_played <= total_samples_read in every
\* reachable state.
C16_PlayedAtMostRead ==
  \A d \in Decks : decks[d].samples_played <= decks[d].total_samples_read

\* C16, witness: a deck was restarted after it had played, was padded with
\* silence before, and has played again
C16_Witness ==
  \E d \in Decks :
    /\ g.apprEpoch[d] = 0 /\ g.apprCount[d] >= 1
    /\ decks[d].samples_played > 0
    /\ decks[d].samples_played = decks[d].total_samples_read
    /\ decks[d].full_samples # <<>>

\* silence padding: a deck has been read more than it has played
C16_ReachPadding ==
  ~ \E d \in Decks : 0 < decks[d].samples_played
                       /\ decks[d].samples_played < decks[d].total_samples_read

\* C17: for each deck, full_samples is at least as long as samples, before
\* and after every step.  The step that handles restart_deck X and the loop
\* restart after a silent chunk leave samples = full_samples and
\* samples_played = 0, full_samples being what it was; the slot that
\* restarts the deck inside the chunk leaves full_samples without its first
\* sample, which it has written, and samples_played = 1.
C17_FullSamples ==
  [][ /\ \A d \in Decks :
           /\ Len(decks[d].full_samples) >= Len(decks[d].samples)
           /\ Len(decks'[d].full_samples) >= Len(decks'[d].samples)
           /\ (IsCmd /\ HasEv(emitted', "deck_restarted", d))
                => /\ decks'[d].samples = decks[d].full_samples
                   /\ decks'[d].full_samples = decks[d].full_samples
                   /\ decks'[d].samples_played = 0
                   /\ decks'[d].receiver = decks[d].receiver
      /\ LET a == mx.active_deck
         IN /\ (IsPost /\ ~mx.mid_chunk_loop_restart
                  /\ HasEv(emitted', "auto_loop_restart", a))
                 => /\ decks'[a].samples = decks[a].full_samples
                    /\ decks'[a].full_samples = decks[a].full_samples
                    /\ decks'[a].samples_played = 0
            /\ (IsSlot /\ ~mx.mid_chunk_loop_restart /\ mx'.mid_chunk_loop_restart)
                 => /\ decks'[a].full_samples # <<>>
                    /\ decks'[a].samples = Tail(decks'[a].full_samples)
                    /\ LastOut' = Out(Head(decks'[a].full_samples), 1)
                    /\ decks'[a].samples_played = 1 ]_vars

\* C17, witness: restart_deck was handled for a deck that had popped
\* samples, while its decoder is attached and has a chunk in the channel
C17_Witness ==
  \E d \in Decks :
    /\ g.last = "cmd"
    /\ emitted = << Ev("deck_restarted", d, "") >>
    /\ decks[d].receiver /\ chan[d].q # <<>>
    /\ decks[d].samples # <<>>
    /\ decks[d].samples = decks[d].full_samples
    /\ decks[d].samples_played = 0
    /\ decks[d].real_samples_received = Len(decks[d].full_samples)
    /\ pc = "cmd" /\ Len(out) = CHUNK_SIZE /\ \A i \in DOMAIN out : ToPcm(out[i]) # 0

\* the step is a command that starts a decoder thread for deck d
LoadsDeck(d) ==
  /\ IsCmd
  /\ chan'[d].open /\ dec'[d].st = "run"
  /\ ~chan[d].open \/ dec'[d] # dec[d]

\* C18: a deck with a receiver attached has has_ended false, before and
\* after every step; a step that turns has_ended of a deck from false to
\* true detaches its receiver, which was attached before the step; a step
\* that loads a deck leaves it with has_ended false and a receiver attached.
C18_EndedMeansDetached ==
  [][ \A d \in Decks :
        /\ decks[d].receiver => ~decks[d].has_ended
        /\ decks'[d].receiver => ~decks'[d].has_ended
        /\ (~decks[d].has_ended /\ decks'[d].has_ended)
             => decks[d].receiver /\ ~decks'[d].receiver
        /\ LoadsDeck(d) => ~decks'[d].has_ended /\ decks'[d].receiver ]_vars

\* C18, witness: a deck that had ended (its receiver detached) was loaded
\* again: it has a receiver and has_ended is false
C18_Witness ==
  \E d \in Decks :
    /\ g.reload /\ g.last = "cmd"
    /\ decks[d].receiver /\ ~decks[d].has_ended
    /\ decks[d].load_started_at = 0
    /\ chan[d].open /\ dec[d].st = "run"

\* a deck has ended with samples left to play
C18_ReachEnded ==
  \E d \in Decks :
    /\ decks[d].has_ended /\ ~decks[d].receiver
    /\ decks[d].samples # <<>> /\ g.last = "begin"

\* the decoder threads of deck d that exist and whose flag is false
Uncancelled(d) ==
  dec[d].old_clear + (IF Alive(dec[d]) /\ ~dec[d].cancel THEN 1 ELSE 0)

\* the step replaces deck d, which had been loaded, by a fresh deck
DropsDeck(d) ==
  /\ IsMixerStep
  /\ decks[d].cancel_token /\ ~decks'[d].cancel_token

\* C19: each deck has at most one decoder thread whose flag is false, and
\* none that left its deck with the flag false.  A step that loads deck d
\* while the thread of its previous load exists leaves that thread with the
\* flag set and starts one thread with the flag false; a step that replaces
\* a loaded deck d by a fresh one does the same and starts none.
C19_OneUncancelled ==
  [][ \A d \in Decks :
        /\ Uncancelled(d) <= 1 /\ dec[d].old_clear = 0
        /\ Uncancelled(d)' <= 1 /\ dec'[d].old_clear = 0
        /\ Alive(dec[d]) => decks[d].cancel_token /\ ~dec[d].cancel
        /\ LoadsDeck(d)
             => /\ Alive(dec'[d]) /\ ~dec'[d].cancel /\ decks'[d].cancel_token
                /\ dec'[d].old_set = dec[d].old_set + (IF Alive(dec[d]) THEN 1 ELSE 0)
        /\ DropsDeck(d)
             => /\ decks'[d] = Deck_new /\ ~chan'[d].open
                /\ dec'[d].st = "none"
                /\ dec'[d].old_set = dec[d].old_set + (IF Alive(dec[d]) THEN 1 ELSE 0) ]_vars

\* C19, witness: a deck was loaded while the thread of its previous load
\* existed: that thread exists with its flag set, the new one is running
C19_Witness ==
  \E d \in Decks :
    /\ dec[d].old_set >= 1
    /\ Alive(dec[d]) /\ ~dec[d].cancel
    /\ decks[d].receiver /\ g.last = "cmd"

\* a deck whose thread existed was replaced by a fresh deck: by a step of
\* the chunk (stall resolution, pending skip, auto-switch), by a command
C19_ReachDroppedInChunk ==
  \E d \in Decks :
    /\ dec[d].old_set >= 1 /\ dec[d].st = "none"
    /\ decks[d] = Deck_new /\ g.last \in { "begin", "slot", "post" }
C19_ReachDroppedByCommand ==
  \E d \in Decks :
    /\ dec[d].old_set >= 1 /\ dec[d].st = "none"
    /\ decks[d] = Deck_new /\ g.last = "cmd"

\* the thread has killed or outlived its subprocesses, waited for both and
\* returned
Terminated == th.pc = "gone" /\ th.reaped /\ th.procs \in { "exited", "killed" }

\* the thread is in read_i16 with nothing to read from live subprocesses
BlockedInRead == th.pc = "read" /\ th.pipe = 0 /\ th.procs = "running"

\* C20: once the cancellation flag of a started decoder thread is set, the
\* thread eventually kills and reaps its subprocesses and returns, whatever
\* the subprocesses do.
C20_CancelTerminates == (th.pc # "none" /\ th.cancel) ~> Terminated

\* what the code does instead: a cancelled thread terminates, or stays in
\* a read that never returns
C20_TerminatesOrBlocked ==
  (th.pc # "none" /\ th.cancel) ~> (Terminated \/ [](BlockedInRead /\ th.cancel))

\* a cancelled thread blocked in read whose watchdog has returned: before
\* and after the first data
C20_ReachBlockedNoData ==
  BlockedInRead /\ th.cancel /\ ~th.first_data /\ th.wd_st = "returned"
C20_ReachBlockedAfterData ==
  BlockedInRead /\ th.cancel /\ th.first_data /\ th.wd_st = "returned"
C20_ReachTerminated == Terminated /\ th.cancel /\ th.cancelled
\* the events of a step, as a set
Range(ev) == { ev[i] : i \in DOMAIN ev }

\* the queued samples deck d has popped in a step of the mixer thread
Popped(d) == Len(Queued(d)) - Len(Queued(d))'

\* C21: a step leaves samples_played of a deck unchanged if it is not a step
\* of the mixer thread; a step of the mixer thread adds to it the number of
\* queued samples the deck popped, or resets it to 0, or (a slot that
\* restarts the deck or switches to it inside the chunk, which resets it and
\* then pops one sample) leaves it at 1.  It is 0 after the step that
\* handles load, play or restart_deck of the deck, and after the slot that
\* completes a crossfade toward it.
C21_SamplesPlayed ==
  [][ \A d \in Decks :
        LET sp  == decks[d].samples_played
            sp1 == decks'[d].samples_played
        IN /\ ~IsMixerStep => sp1 = sp
           /\ IsMixerStep
                => \/ Popped(d) >= 0 /\ sp1 = sp + Popped(d)
                   \/ sp1 = 0
                   \/ /\ IsSlot /\ sp1 = 1 /\ mx'.active_deck = d
                      /\ \/ ~mx.mid_chunk_loop_restart /\ mx'.mid_chunk_loop_restart
                         \/ mx.mid_chunk_auto_switch = NoSwitch
                              /\ mx'.mid_chunk_auto_switch = d
           /\ LoadsDeck(d) => sp1 = 0
           /\ (IsCmd /\ HasEv(emitted', "deck_restarted", d)) => sp1 = 0
           /\ (IsCmd /\ Ev("deck_changed", d, "play_command") \in Range(emitted'))
                => sp1 = 0
           /\ (IsSlot /\ Ev("deck_changed", d, "crossfade_completion") \in Range(emitted'))
                => sp1 = 0 /\ mx'.active_deck = d ]_vars

\* C21, witness: a crossfade has completed toward a deck that had popped
\* samples during it: the deck is active and its samples_played is 0
C21_Witness ==
  \E d \in Decks :
    /\ g.last = "slot"
    /\ Ev("deck_changed", d, "crossfade_completion") \in Range(emitted)
    /\ mx.active_deck = d /\ ~mx.crossfading
    /\ decks[d].samples_played = 0
    /\ decks[d].total_samples_read > 0
    /\ Len(decks[d].full_samples) > Len(decks[d].samples)

\* play of a deck that had played; a deck that pops with samples_played > 0
C21_ReachPlayReset ==
  \E d \in Decks :
    /\ g.last = "cmd" /\ Ev("deck_changed", d, "play_command") \in Range(emitted)
    /\ decks[d].samples_played = 0 /\ decks[d].total_samples_read > 0
C21_ReachCounting ==
  \E d \in Decks : g.last = "slot" /\ decks[d].samples_played >= 3

\* what stop_deck d leaves, S being the state before it and S1 the state
\* after it
Stopped(S, S1, d) ==
  /\ ~S1.mx.buffer_prev_ready[d] /\ ~S1.mx.end_sent[d]
  /\ ~S1.mx.approaching_end_sent[d]
  /\ ~S1.decks[d].receiver /\ ~S1.chan[d].open
  /\ S1.decks[d].samples = <<>> /\ S1.decks[d].full_samples = <<>>
  /\ S1.decks[d].buffer_level = 0 /\ S1.decks[d].total_samples_read = 0
  /\ S1.decks[d].real_samples_received = 0 /\ S1.decks[d].samples_played = 0
  /\ ~S1.decks[d].has_ended /\ ~S1.decks[d].cancel_token
  /\ S1.dec[d].st = "none"
  /\ S1.dec[d].old_clear = S.dec[d].old_clear
  /\ S1.dec[d].old_set = S.dec[d].old_set + (IF Alive(S.dec[d]) THEN 1 ELSE 0)
  /\ S1.mx.is_playing = (S.mx.is_playing /\ S.mx.active_deck # d)

\* the step is a command that drops a loaded deck d and sends no event
\* (skip_to, the other command that drops a deck, sends deck_changed)
StopsDeck(d) == IsCmd /\ DropsDeck(d) /\ emitted' = <<>>

\* C22: in every state in which the mixer takes commands, handling
\* stop_deck d would leave the latches of d false, d without receiver, with
\* empty samples and full_samples and counters 0, the thread of its last
\* load (if it exists) with its flag set, and is_playing false if d was the
\* active deck and unchanged otherwise; and every step that handles
\* stop_deck of a loaded deck leaves exactly that.
C22_StopDeck ==
  [][ \A d \in Decks :
        /\ pc = "cmd" => Stopped(Cur, Cmd_StopDeck(Cur, d), d)
        /\ StopsDeck(d)
             => Stopped(Cur, [ decks |-> decks', chan |-> chan', dec |-> dec',
                               mx |-> mx', ev |-> emitted' ], d) ]_vars

\* C22, witness: stop_deck of the active deck, which was playing with its
\* decoder thread running, was handled
C22_Witness ==
  \E d \in Decks :
    /\ g.last = "cmd" /\ emitted = <<>>
    /\ mx.active_deck = d /\ ~mx.is_playing
    /\ decks[d] = Deck_new /\ dec[d].st = "none" /\ dec[d].old_set >= 1
    /\ ~mx.end_sent[d] /\ ~mx.buffer_prev_ready[d]

\* stop_deck of the deck that is not active, playback going on
C22_ReachStopOther ==
  \E d \in Decks :
    /\ g.last = "cmd" /\ emitted = <<>>
    /\ mx.active_deck # d /\ mx.is_playing
    /\ decks[d] = Deck_new /\ dec[d].old_set >= 1

\* C23: in every reachable state active_deck is A or B, and so is the
\* target of a crossfade in progress.
C23_ActiveIsDeck ==
  /\ mx.active_deck \in Decks
  /\ mx.crossfading => mx.target_deck \in Decks

\* active_deck is a name that is no deck after a crossfade toward that name
\* has completed
C23_ReachByCrossfade ==
  /\ mx.active_deck \notin Decks /\ g.last = "slot"
  /\ Ev("deck_changed", mx.active_deck, "crossfade_completion") \in Range(emitted)
C23_ReachByApproval ==
  /\ mx.crossfading /\ mx.target_deck \notin Decks /\ g.last = "cmd" /\ emitted = <<>>
  /\ mx.crossfade_total = PROACTIVE_CROSSFADE_TOTAL

\* C24: the process exits only in a step that handles a command (stop).
C24_ExitOnlyOnStop ==
  [][ (pc # "exited" /\ pc' = "exited") => IsCmd ]_vars

\* the process is gone without a stop: in the middle of a chunk, with the
\* deck playing
C24_ReachExitInChunk ==
  /\ pc = "exited" /\ g.last = "slot" /\ mx.is_playing /\ out # <<>>
C24_ReachExitOnStop == pc = "exited" /\ g.last = "cmd" /\ mx.is_playing
\* the decoder ended before its first sample and the mixer goes on
C24_ReachDecoderFailed ==
  /\ pc = "mix" /\ mx.is_playing /\ decks["A"].has_ended
  /\ decks["A"].real_samples_received = 0

\* the last load of deck d ended without a single sample and d has played
\* nothing since
FailedDeck(d) ==
  /\ decks[d].has_ended /\ ~decks[d].receiver /\ decks[d].cancel_token
  /\ decks[d].real_samples_received = 0 /\ decks[d].samples_played = 0

FailedActive(d) ==
  pc # "exited" /\ FailedDeck(d) /\ mx.active_deck = d /\ mx.is_playing

C26_NoEndEvents ==
  \A d \in Decks :
    FailedDeck(d)
      => ~HasEv(emitted, "approaching_end", d) /\ ~HasEv(emitted, "end", d)

\* approaching_end of the failed deck, active and playing
C26_ReachApproachingEnd ==
  /\ FailedActive("A") /\ g.last = "post"
  /\ emitted = << Ev("approaching_end", "A", "") >>

\* a slot in which the mixer switched decks outside a crossfade
SwitchInSlot == IsSlot /\ ~mx.crossfading /\ mx'.active_deck # mx.active_deck

\* a slot in which the active deck d was restarted from its cache
RestartInSlot(d) ==
  /\ IsSlot /\ ~mx.crossfading /\ mx.active_deck = d /\ mx'.active_deck = d
  /\ decks'[d].samples_played < decks[d].samples_played

RecoveredInChunk(m) == m.mid_chunk_auto_switch # NoSwitch \/ m.mid_chunk_loop_restart

\* C27: a deck switch or a loop restart inside a chunk happens only if no
\* recovery has happened in that chunk yet, and records itself; every
\* chunk starts with nothing recorded; after a chunk with a recovery the
\* handling after the chunk only sends the events of that recovery, it
\* changes no deck, active deck, stall or end latch and sends no `end`; and
\* after a chunk without one it sends no event of a mid-chunk recovery.
C27_OneRecovery ==
  [][ /\ SwitchInSlot
           => /\ ~RecoveredInChunk(mx)
              /\ mx'.mid_chunk_auto_switch = mx'.active_deck
              /\ ~mx'.mid_chunk_loop_restart
      /\ \A d \in Decks :
           RestartInSlot(d)
             => /\ ~RecoveredInChunk(mx)
                /\ mx'.mid_chunk_loop_restart
                /\ mx'.mid_chunk_auto_switch = NoSwitch
      /\ (IsSlot /\ ~SwitchInSlot /\ \A d \in Decks : ~RestartInSlot(d))
           => /\ mx'.mid_chunk_auto_switch = mx.mid_chunk_auto_switch
              /\ mx'.mid_chunk_loop_restart = mx.mid_chunk_loop_restart
      /\ (IsBegin /\ pc' = "mix") => ~RecoveredInChunk(mx')
      /\ (IsPost /\ RecoveredInChunk(mx))
           => /\ decks' = decks /\ dec' = dec /\ chan' = chan
              /\ mx'.active_deck = mx.active_deck
              /\ mx'.auto_gapless_stall = mx.auto_gapless_stall
              /\ mx'.end_sent = mx.end_sent
              /\ \A e \in Range(emitted') :
                   \/ e.event = "approaching_end"
                   \/ e = Ev("auto_loop_restart", mx.active_deck, "")
                        /\ mx.mid_chunk_loop_restart
                   \/ e \in { Ev("auto_end_switch", mx.active_deck, ""),
                              Ev("deck_changed", mx.active_deck,
                                 "mid_chunk_auto_gapless") }
                        /\ ~mx.mid_chunk_loop_restart
              /\ Len(SelectSeq(emitted', LAMBDA e : e.event # "approaching_end"))
                   = IF mx.mid_chunk_loop_restart THEN 1 ELSE 2
      /\ (IsPost /\ ~RecoveredInChunk(mx))
           => \A e \in Range(emitted') : e.info # "mid_chunk_auto_gapless" ]_vars

\* C27, witness: the handling after a chunk in which the mixer switched
\* decks has sent the events of the switch
C27_Witness ==
  /\ g.last = "post" /\ pc = "cmd"
  /\ Ev("deck_changed", mx.active_deck, "mid_chunk_auto_gapless") \in Range(emitted)

\* a loop restart in the first slot of a chunk, the second slot mixed
C27_ReachRestartInChunk ==
  /\ pc = "post" /\ mx.mid_chunk_loop_restart /\ decks[mx.active_deck].samples_played = 2

\* the decoder thread of the load deck d holds has returned without having
\* been cancelled, the deck still holding that load
DecodedAll(d) == dec[d].st = "done" /\ ~dec[d].cancel /\ decks[d].cancel_token

\* every sample the deck has received from the channel of its load, and
\* those still in the channel
Delivered(d) == decks[d].full_samples \o Flatten(chan[d].q)

\* C28: when the decoder thread has returned at the end of the stream, not
\* cancelled and with the deck still holding the receiver of the load, the
\* chunks it sent, put end to end, are the stream it read, and the channel
\* is closed.
C28_DeliveredOnce ==
  \A d \in Decks :
    DecodedAll(d) => Delivered(d) = dec[d].stream /\ ~chan[d].open

\* a stream of whole batches was delivered sample for sample
C28_ReachWholeBatches ==
  /\ DecodedAll("A") /\ dec["A"].stream = TrackFull
  /\ decks["A"].full_samples = TrackFull /\ ~decks["A"].receiver

\* the residual of the last partial batch was delivered twice
C28_ReachResidualTwice ==
  /\ DecodedAll("A") /\ dec["A"].stream = TrackTail
  /\ decks["A"].full_samples = TrackTail \o <<0, 0, 0>> /\ ~decks["A"].receiver

\* the deck whose buffer the Crossfade handler looks at for the name `to`,
\* after its poll: ready for a crossfade, or download complete with samples
TargetReady(S, to) ==
  LET S2 == IF to \in Decks THEN Deck_poll_receiver(S, to) ELSE S
      tk == S2.decks[AElseB(to)]
  IN Len(tk.samples) >= READY_THRESHOLD \/ (~tk.receiver /\ Len(tk.samples) > 0)

\* S1 is S with a crossfade of duration ms toward `to` started
CrossfadeStarted(S, S1, ms, to) ==
  /\ S1.mx.crossfading /\ S1.mx.target_deck = to
  /\ S1.mx.crossfade_total = CrossfadeTotalOf(ms)
  /\ S1.mx.crossfade_left = S1.mx.crossfade_total
  /\ ~S1.mx.pending_transition.some
  /\ S1.mx.active_deck = S.mx.active_deck
  /\ S1.ev = << Ev("crossfade_started", to, S.mx.active_deck) >>

\* S1 is S with a crossfade of duration ms toward `to` pending
CrossfadePending(S, S1, ms, to) ==
  /\ S1.mx.pending_transition = SomePending(to, TRUE, ms)
  /\ S1.mx.crossfading = S.mx.crossfading
  /\ S1.mx.active_deck = S.mx.active_deck
  /\ S1.ev = <<>>

CrossfadeEffect(S, S1, ms, to) ==
  IF TargetReady(S, to) THEN CrossfadeStarted(S, S1, ms, to)
  ELSE CrossfadePending(S, S1, ms, to)

\* C29 as stated: wherever the mixer can take a command, a crossfade command
\* toward a name other than the active deck either starts the crossfade
\* (target ready) or leaves it pending (target not ready).
C29_NeverDropped ==
  (pc = "cmd" /\ ncmds < MaxCmds)
    => \A to \in Names \ { mx.active_deck }, ms \in Durations :
         CrossfadeEffect(Cur, Cmd_Crossfade(Cur, ms, to), ms, to)

\* C29: wherever the mixer can take a command, a crossfade command toward a
\* name other than the active deck, taken while no crossfade is in
\* progress, either starts the crossfade (target ready) or leaves it
\* pending (target not ready); taken while a crossfade is in progress it
\* clears the auto-gapless stall and changes nothing else.
C29_StartsOrPends ==
  (pc = "cmd" /\ ncmds < MaxCmds)
    => \A to \in Names \ { mx.active_deck }, ms \in Durations :
         IF mx.crossfading
           THEN Cmd_Crossfade(Cur, ms, to)
                  = [ Cur EXCEPT !.mx.auto_gapless_stall = NoStall ]
           ELSE CrossfadeEffect(Cur, Cmd_Crossfade(Cur, ms, to), ms, to)

\* C29, witness: a crossfade command has started a crossfade
C29_Witness ==
  /\ g.last = "cmd" /\ mx.crossfading /\ mx.target_deck # mx.active_deck
  /\ mx.crossfade_left = mx.crossfade_total
  /\ emitted = << Ev("crossfade_started", mx.target_deck, mx.active_deck) >>

\* a crossfade command has left its crossfade pending
C29_ReachPending ==
  /\ g.last = "cmd" /\ ~mx.crossfading /\ emitted = <<>>
  /\ mx.pending_transition.some /\ mx.pending_transition.is_cf
  /\ mx.pending_transition.target # mx.active_deck

\* a command can be taken while a crossfade is in progress
C29_ReachCommandInCrossfade ==
  /\ pc = "cmd" /\ ncmds < MaxCmds /\ mx.crossfading /\ mx.crossfade_left > 0
  /\ g.last \in { "begin", "post" }

\* the proactive trigger fired in this step
ProactiveStart ==
  IsBegin /\ ~mx.proactive_crossfade_triggered /\ mx'.proactive_crossfade_triggered

\* approve_proposal started its crossfade in this step
ApprovedStart ==
  /\ IsCmd /\ mx.proactive_crossfade_triggered /\ ~mx'.proactive_crossfade_triggered
  /\ mx'.crossfading /\ mx'.crossfade_left = mx'.crossfade_total
  /\ mx'.crossfade_left > 0

\* a crossfade started by the proactive trigger, its target never starved
\* and no command handled since, finalizes in this step
ProactiveDone ==
  /\ IsSlot /\ g'.xfDone /\ mx.proactive_crossfade_triggered
  /\ mx.crossfade_total = PROACTIVE_CROSSFADE_TOTAL

\* the length of the proactive crossfade is `total` samples at 48000 Hz and
\* 2 channels, a crossfade started by the trigger or by an approval has
\* the length of the formula, and a proactive crossfade that is not
\* disturbed mixes exactly that many samples up to its deck_changed
ProactiveLength(total) ==
  /\ ProactiveTotalAt(48000, 2) = total
  /\ (ProactiveStart \/ ApprovedStart)
       => /\ mx'.crossfading
          /\ mx'.crossfade_total = ProactiveTotalAt(SAMPLE_RATE, CHANNELS) \div 3000
          /\ mx'.crossfade_left = mx'.crossfade_total
  /\ ProactiveStart
       => Ev("crossfade_started", mx'.target_deck, mx'.active_deck)
            \in Range(emitted')
  /\ ProactiveDone
       => /\ g'.xfMixed = mx.crossfade_total
          /\ Ev("deck_changed", mx.target_deck, "crossfade_completion")
               \in Range(emitted')

\* C30 as stated: a proactive or approved crossfade has crossfade_total =
\* 288000 interleaved samples, and deck_changed (crossfade_completion) comes
\* after exactly crossfade_total mixed samples.
C30_Exactly288000 == [][ProactiveLength(288000)]_vars

\* C30: a proactive or approved crossfade has crossfade_total = 576000
\* interleaved samples (6 s at 48000 Hz, 2 channels), and deck_changed
\* (crossfade_completion) comes after exactly crossfade_total mixed samples.
C30_Exactly576000 == [][ProactiveLength(576000)]_vars

\* C30, witness: a crossfade started by the proactive trigger has just
\* finalized after PROACTIVE_CROSSFADE_TOTAL mixed samples
C30_Witness ==
  /\ g.xfDone /\ g.last = "slot" /\ ~mx.crossfading
  /\ mx.crossfade_total = PROACTIVE_CROSSFADE_TOTAL
  /\ g.xfMixed = PROACTIVE_CROSSFADE_TOTAL
  /\ Ev("deck_changed", mx.active_deck, "crossfade_completion") \in Range(emitted)

\* approve_proposal, handled during a proactive crossfade, has just started
\* the crossfade anew
C30_ReachApproved ==
  /\ g.last = "cmd" /\ emitted = <<>> /\ mx.crossfading /\ mx.target_deck \in Decks
  /\ mx.is_playing /\ mx.proactive_crossfade_enabled /\ g.xfMixed = 0
  /\ mx.crossfade_total = PROACTIVE_CROSSFADE_TOTAL
  /\ mx.crossfade_left = mx.crossfade_total
  /\ ~mx.proactive_crossfade_triggered

\* a pending skip toward deck t was executed in this step
PendingSkipDone(t) ==
  IsBegin /\ Ev("deck_changed", t, "pending_skip") \in Range(emitted')

\* C31: the step that executes a pending skip toward deck T leaves T the
\* active deck with every sample it had queued, its token, its receiver and
\* its decoder thread as they were; the deck it resets is not T.
C31_SkipKeepsTarget ==
  [][ \A t \in Decks :
        PendingSkipDone(t)
          => /\ mx'.active_deck = t
             /\ Queued(t)' = Queued(t)
             /\ decks'[t].cancel_token = decks[t].cancel_token
             /\ decks'[t].full_samples \o Flatten(chan'[t].q)
                  = decks[t].full_samples \o Flatten(chan[t].q)
             /\ dec'[t] = dec[t] ]_vars

\* a pending skip toward the deck that play had made active in the meantime
\* was executed: the deck, loaded and with samples, is fresh again
C31_ReachTargetReset ==
  \E t \in Decks :
    /\ g.last = "begin" /\ Ev("deck_changed", t, "pending_skip") \in Range(emitted)
    /\ mx.active_deck = t /\ decks[t] = Deck_new /\ dec[t].old_set >= 1

\* a pending skip toward a deck other than the active one was executed and
\* the target kept its samples
C31_ReachSkipDone ==
  \E t \in Decks :
    /\ g.last = "begin" /\ Ev("deck_changed", t, "pending_skip") \in Range(emitted)
    /\ mx.active_deck = t /\ decks[t].samples # <<>> /\ decks[t].cancel_token

\* C32: the proactive trigger never starts a crossfade from deck Y toward
\* deck X when the last crossfade that completed went from X to Y and X has
\* not been loaded since.
C32_NoFadeBack ==
  [][ ProactiveStart
        => ~( /\ g.faded \in Decks
              /\ mx'.target_deck = g.faded
              /\ mx'.active_deck = g.fadedTo ) ]_vars

\* a proactive crossfade back to the source of the crossfade that has just
\* completed, started on the samples that source still had queued
C32_ReachFadeBack ==
  /\ g.last = "begin" /\ mx.crossfading /\ mx.proactive_crossfade_triggered
  /\ g.faded \in Decks /\ mx.target_deck = g.faded /\ mx.active_deck = g.fadedTo
  /\ mx.crossfade_left = PROACTIVE_CROSSFADE_TOTAL
  /\ decks[g.faded].samples # <<>>

\* the step declares the active deck x finished or discards it: `end` x, a
\* loop restart of x, or an automatic switch away from x
FinishesDeck(x) ==
  /\ mx.active_deck = x
  /\ \/ SwitchInSlot
     \/ RestartInSlot(x)
     \/ /\ IsPost /\ ~RecoveredInChunk(mx)
        /\ \/ HasEv(emitted', "end", x)
           \/ HasEv(emitted', "auto_loop_restart", x)
           \/ \E y \in Decks : HasEv(emitted', "auto_end_switch", y)
     \/ /\ IsBegin
        /\ \/ HasEv(emitted', "end", x)
           \/ \E y \in Decks : HasEv(emitted', "auto_end_switch", y)

\* C33: the active deck is declared finished or discarded only in a state
\* where it has no queued sample.
C33_OnlyWhenDrained ==
  [][ \A x \in Decks : FinishesDeck(x) => Queued(x) = <<>> ]_vars

\* `end` of the active deck after a chunk of zero samples, the deck having
\* samples queued still
C33_ReachEndWithQueue ==
  \E x \in Decks :
    /\ g.last = "post" /\ mx.active_deck = x /\ HasEv(emitted, "end", x)
    /\ decks[x].samples # <<>> /\ \A i \in DOMAIN out : out[i].num = 0

\* the same for a deck that is drained
C33_ReachEndDrained ==
  \E x \in Decks :
    /\ g.last = "post" /\ mx.active_deck = x /\ HasEv(emitted, "end", x)
    /\ decks[x].samples = <<>>

\* C34: whenever crossfading is true, target_deck differs from active_deck.
C34_DistinctDecks == mx.crossfading => mx.target_deck # mx.active_deck

\* a crossfade from the active deck to the other deck is running
C34_ReachCrossfading ==
  mx.crossfading /\ mx.target_deck # mx.active_deck

\* a crossfade is running whose target is the active deck
C34_ReachSelfCrossfade ==
  mx.crossfading /\ mx.target_deck = mx.active_deck /\ g.last = "begin"

\* Crossfades between a deck that is loaded and one that may never be
CommandsFade ==
  \/ DoLoad("B", TrackFull)
  \/ DoPlay("B")
  \/ \E ms \in Durations : DoCrossfade(ms, "A")

NextFade == CommandsFade \/ Mixer \/ Attached \/ Tick

\* the mixer thread loops without blocking, a decoder thread that can send
\* or return does so, and time passes; commands come when the controller
\* sends them
FairFade == WF_vars(Mixer) /\ WF_vars(Attached) /\ WF_vars(Tick)
SpecFade == Init /\ [][NextFade]_vars /\ FairFade

\* the exhaustion of a deck is reported by the last mixer step
ExhaustionReported ==
  \E d \in Decks :
    \/ HasEv(emitted, "end", d)
    \/ HasEv(emitted, "auto_end_switch", d)
    \/ HasEv(emitted, "auto_loop_restart", d)

\* C35: a crossfade that has started, with playback on, eventually finalizes
\* or the exhaustion of the source deck is reported.
C35_CrossfadeEnds ==
  (mx.crossfading /\ mx.is_playing) ~> (~mx.crossfading \/ ExhaustionReported)

\* a crossfade is running, the source deck is drained with its decoder gone,
\* the target deck has no sample and no decoder, and the chunk just mixed is
\* silence
C35_ReachSilentCrossfade ==
  /\ mx.crossfading /\ mx.is_playing /\ pc = "post"
  /\ mx.active_deck \in Decks /\ mx.target_deck \in Decks
  /\ mx.target_deck # mx.active_deck
  /\ Queued(mx.active_deck) = <<>> /\ decks[mx.active_deck].receiver = FALSE
  /\ decks[mx.active_deck].samples_played > 0
  /\ Queued(mx.target_deck) = <<>> /\ decks[mx.target_deck].receiver = FALSE
  /\ \A i \in DOMAIN out : out[i].num = 0

\* a crossfade has completed
C35_ReachCompleted == g.faded \in Decks /\ g.last = "slot" /\ ~mx.crossfading

\* the step makes an automatic transition away from deck x or toward the
\* other deck
AutoTransition(x) ==
  \/ mx'.active_deck # x
  \/ \E i \in DOMAIN emitted' :
       emitted'[i].event \in {"auto_end_switch", "crossfade_started", "deck_changed"}

\* C36: after `end` x and while no command is handled, no step of the mixer
\* makes an automatic transition: active_deck stays x and no auto_end_switch,
\* crossfade_started or deck_changed is sent.
C36_NoTransitionAfterEnd ==
  [][ \A x \in Decks :
        (g.ended = x /\ (IsBegin \/ IsSlot \/ IsPost)) => ~AutoTransition(x) ]_vars

\* `end` x was sent, no command came, and the mixer has switched to the other
\* deck on its own
C36_ReachSwitchAfterEnd ==
  \E x \in Decks :
    /\ g.ended = x /\ mx.active_deck = Other(x)
    /\ Ev("auto_end_switch", Other(x), "") \in Range(emitted)

\* `end` x was sent, no command came, and the mixer plays on
C36_ReachAfterEnd ==
  \E x \in Decks : g.ended = x /\ mx.active_deck = x /\ g.last = "post"
                     /\ ~HasEv(emitted, "end", x)

\* C37: for each deck, samples_played + samples.len() <= full_samples.len().
C37_PlayedPlusQueued ==
  \A d \in Decks :
    decks[d].samples_played + Len(decks[d].samples) <= Len(decks[d].full_samples)

\* a deck that has played samples and has samples queued
C37_Witness ==
  \E d \in Decks : decks[d].samples_played > 0 /\ decks[d].samples # <<>>
                     /\ Len(decks[d].full_samples) > Len(decks[d].samples)

\* C38: whenever auto_gapless_stall is set, crossfading is false,
\* pending_transition is empty and the stall target is the deck other than
\* active_deck.
C38_StallAlone ==
  mx.auto_gapless_stall.some =>
    /\ ~mx.crossfading
    /\ ~mx.pending_transition.some
    /\ mx.active_deck \in Decks
    /\ mx.auto_gapless_stall.target = Other(mx.active_deck)

\* the mixer is stalled, waiting for the first samples of the other deck
C38_ReachStall ==
  /\ mx.auto_gapless_stall.some /\ g.last = "begin" /\ out = SilentChunk
  /\ mx.auto_gapless_stall.target = Other(mx.active_deck)

\* a command was handled during a stall and the stall is still set
C38_ReachCommandInStall ==
  mx.auto_gapless_stall.some /\ g.last = "cmd"

\* Commands during a stall: load A, load B, play A in this order, then one
\* command among play, skip_to, crossfade, approve_proposal and load
CommandsStall ==
  \/ CommandAt(0, "load", "A", Cmd_Load(Cur, "A", TrackFull))
  \/ CommandAt(1, "load", "B", Cmd_Load(Cur, "B", TrackOne))
  \/ CommandAt(2, "play", "A", Cmd_Play(Cur, "A"))
  \/ \E d \in Decks : CommandAt(3, "play", d, Cmd_Play(Cur, d))
  \/ \E d \in Decks : CommandAt(3, "skip_to", d, Cmd_SkipTo(Cur, d))
  \/ \E d \in Decks : CommandAt(3, "crossfade", d, Cmd_Crossfade(Cur, 2, d))
  \/ \E d \in Decks : CommandAt(3, "approve_proposal", d, Cmd_ApproveProposal(Cur, d))
  \/ \E d \in Decks : CommandAt(3, "load", d, Cmd_Load(Cur, d, TrackOne))

NextStall == CommandsStall \/ Mixer \/ Decoders \/ Tick

SpecStall == Init /\ [][NextStall]_vars

\* the step starts a crossfade, enqueues a pending transition or changes
\* active_deck
TransitionStep ==
  \/ mx'.crossfading /\ ~mx.crossfading
  \/ mx'.pending_transition.some /\ mx'.pending_transition # mx.pending_transition
  \/ mx'.active_deck # mx.active_deck

\* such a step clears the stall
C38_TransitionClearsStall ==
  [][ (mx.auto_gapless_stall.some /\ TransitionStep)
        => ~mx'.auto_gapless_stall.some ]_vars

\* a stall was ended by a command that starts a transition
C38_ReachClearedByCommand ==
  /\ g.last = "cmd" /\ ~mx.auto_gapless_stall.some
  /\ mx.crossfading \/ mx.pending_transition.some
  /\ decks["A"].has_ended /\ decks["A"].samples = <<>> /\ mx.active_deck = "A"
  /\ decks["B"].receiver /\ decks["B"].samples = <<>>

\* the samples left in the decoder's buffer at the end of a stream
Residual(stream) ==
  SubSeq(stream, Len(stream) - (Len(stream) % DECODER_CHUNK) + 1, Len(stream))

\* the samples the decoder thread t has sent so far, in the order sent
SentBy(t) ==
  CASE t.st = "run"  -> SubSeq(t.stream, 1, Len(t.stream) - Len(t.src))
    [] t.st = "tail" -> t.stream
    [] t.st = "done" -> t.stream \o Residual(t.stream)
    [] OTHER         -> <<>>

\* C39: what a deck has received, with what waits in its channel, is what
\* the decoder attached by its latest load has sent, in the order sent: no
\* sample of the decoder of an earlier load is among them.
C39_OnlyLatestDecoder ==
  \A d \in Decks : Delivered(d) = SentBy(dec[d])

\* a deck was loaded again while the decoder of its earlier load was running;
\* that decoder still runs and the deck has received samples of the new one
C39_Witness ==
  \E d \in Decks :
    /\ dec[d].old_set + dec[d].old_clear > 0
    /\ dec[d].st # "none" /\ decks[d].full_samples # <<>>

\* the mixer thread is at the end of an iteration of its loop
IterationEnd == pc = "cmd" /\ g.last \in {"begin", "post"}

\* C40: at the end of every mixer iteration the last deck_changed sent names
\* the current active_deck (the initial active deck when none was sent): a
\* change of active_deck during the iteration was announced in it.
C40_ChangeAnnounced == IterationEnd => g.announced = mx.active_deck

\* an iteration ends after a mid-chunk or post-chunk auto-switch to deck B,
\* whose deck_changed was sent in it
C40_Witness ==
  /\ IterationEnd /\ mx.active_deck = "B" /\ g.announced = "B"
  /\ \E i \in DOMAIN emitted : emitted[i].event = "auto_end_switch"
  /\ HasEv(emitted, "deck_changed", "B")

\* a crossfade runs with playback on and nothing pending, the source deck is
\* drained and its decoder gone, the target deck has no sample and no decoder
StarvedCrossfade ==
  /\ mx.crossfading /\ mx.is_playing /\ ~mx.pending_transition.some
  /\ mx.active_deck \in Decks /\ mx.target_deck \in Decks
  /\ \A d \in { mx.active_deck, mx.target_deck } :
       Queued(d) = <<>> /\ ~decks[d].receiver

\* no step other than a command leaves that state, and none reports the
\* exhaustion of a deck: the mixer writes silence for as long as it runs
C35_StarvedForever ==
  [][ (StarvedCrossfade /\ ~IsCmd)
        => (StarvedCrossfade' /\ \A i \in DOMAIN emitted' :
              emitted'[i].event \notin
                {"end", "auto_end_switch", "auto_loop_restart", "deck_changed"}) ]_vars

====
